---- MODULE Spec2Model ----
(***************************************************************************)
(* A model of the chess core of chess_web: PieceRules (models/pieces.py),  *)
(* Board (models/board.py) and the Game state machine (models/game.py).    *)
(* Squares are <<row, col>> pairs, row 0 is Black's back rank, row 7 is    *)
(* White's, as in Board._initialize_pieces.                                *)
(***************************************************************************)
EXTENDS Integers, Sequences, FiniteSets, TLC

VARIABLES
    board,              \* Board.board: the 8x8 grid of pieces
    board_ep,           \* Board.en_passant_target
    current_turn,       \* Game.current_turn
    move_history,       \* Game.move_history
    captured_pieces,    \* Game.captured_pieces
    game_over,          \* Game.game_over
    winner,             \* Game.winner
    status_message,     \* Game.status_message
    finished_at,        \* Game.finished_at
    en_passant_target,  \* Game.en_passant_target
    halfmove_clock,     \* Game.halfmove_clock
    position_history,   \* Game.position_history
    ai_enabled,         \* Game.ai_enabled
    ai_color,           \* Game.ai_color
    now                 \* the wall clock read by Game._mark_finished

game == <<board, board_ep, current_turn, move_history, captured_pieces,
          game_over, winner, status_message, finished_at, en_passant_target,
          halfmove_clock, position_history, ai_enabled, ai_color>>

vars == <<board, board_ep, current_turn, move_history, captured_pieces,
          game_over, winner, status_message, finished_at, en_passant_target,
          halfmove_clock, position_history, ai_enabled, ai_color, now>>

----------------------------------------------------------------------------
(* Values *)

\* Python's None, for a grid cell, a square, a colour and a string
None == [type |-> "none", color |-> "none", position |-> <<>>, has_moved |-> FALSE]
NoSquare == <<>>
NoColor == "none"
NoValue == "none"
NoStamp == <<>>

Rows == 0 .. 7
Squares == Rows \X Rows
Colors == {"white", "black"}

Abs(x) == IF x < 0 THEN -x ELSE x

\* 'black' if color == 'white' else 'white'
Opponent(color) == IF color = "white" THEN "black" ELSE "white"

\* Piece.__init__: a piece of a class, with a colour, a square, and unmoved
Piece(type, color, position) ==
    [type |-> type, color |-> color, position |-> position, has_moved |-> FALSE]

\* Piece.to_dict: class name in lower case, colour, position, has_moved
PieceToDict(piece) ==
    [type |-> piece.type, color |-> piece.color,
     position |-> piece.position, has_moved |-> piece.has_moved]

_is_valid_position(row, col) == 0 <= row /\ row < 8 /\ 0 <= col /\ col < 8

----------------------------------------------------------------------------
(* Board *)

\* Board.get_piece: the cell, or None outside the grid
get_piece(b, row, col) ==
    IF 0 <= row /\ row < 8 /\ 0 <= col /\ col < 8 THEN b[<<row, col>>] ELSE None

\* Board.set_piece: writes the cell and the piece's own position; a no-op
\* outside the grid
set_piece(b, row, col, piece) ==
    IF 0 <= row /\ row < 8 /\ 0 <= col /\ col < 8
    THEN [b EXCEPT ![<<row, col>>] =
            IF piece # None THEN [piece EXCEPT !.position = <<row, col>>] ELSE None]
    ELSE b

\* Board.move_piece: destination set, source cleared, has_moved marked
move_piece(b, from_pos, to_pos) ==
    LET piece == get_piece(b, from_pos[1], from_pos[2]) IN
    IF piece = None THEN b
    ELSE LET b1 == set_piece(b, to_pos[1], to_pos[2], piece)
             b2 == set_piece(b1, from_pos[1], from_pos[2], None)
         IN  \* piece.has_moved = True acts on the object now held by the
             \* destination cell (when the destination is on the grid)
             IF _is_valid_position(to_pos[1], to_pos[2]) /\ to_pos # from_pos
             THEN [b2 EXCEPT ![to_pos].has_moved = TRUE]
             ELSE b2

\* Board._initialize_pieces
BackRank == <<"rook", "knight", "bishop", "queen", "king", "bishop", "knight", "rook">>

InitialBoard ==
    [sq \in Squares |->
        CASE sq[1] = 0 -> Piece(BackRank[sq[2] + 1], "black", sq)
          [] sq[1] = 1 -> Piece("pawn", "black", sq)
          [] sq[1] = 6 -> Piece("pawn", "white", sq)
          [] sq[1] = 7 -> Piece(BackRank[sq[2] + 1], "white", sq)
          [] OTHER -> None]

----------------------------------------------------------------------------
(* PieceRules: pseudo-legal destinations, as sets of squares *)

_is_enemy(self, piece) == piece # None /\ piece.color # self.color

\* one ray of Rook/Bishop/Queen.get_possible_moves: squares at distance i in
\* direction d, up to and including the first occupied square when it holds
\* an enemy
Ray(b, self, d) ==
    LET row == self.position[1]
        col == self.position[2]
        At(i) == get_piece(b, row + d[1] * i, col + d[2] * i)
    IN  { <<row + d[1] * i, col + d[2] * i>> : i \in
            { k \in 1 .. 7 :
                /\ _is_valid_position(row + d[1] * k, col + d[2] * k)
                /\ \A j \in 1 .. (k - 1) : At(j) = None
                /\ (At(k) = None \/ _is_enemy(self, At(k))) } }

RookDirections == { <<0, 1>>, <<0, -1>>, <<1, 0>>, <<-1, 0>> }
BishopDirections == { <<1, 1>>, <<1, -1>>, <<-1, 1>>, <<-1, -1>> }
QueenDirections == RookDirections \cup BishopDirections
KnightOffsets == { <<-2, -1>>, <<-2, 1>>, <<-1, -2>>, <<-1, 2>>,
                   <<1, -2>>, <<1, 2>>, <<2, -1>>, <<2, 1>> }

RookMoves(b, self) == UNION { Ray(b, self, d) : d \in RookDirections }
BishopMoves(b, self) == UNION { Ray(b, self, d) : d \in BishopDirections }
QueenMoves(b, self) == UNION { Ray(b, self, d) : d \in QueenDirections }

\* Knight.get_possible_moves and the adjacent squares of King.get_possible_moves
StepMoves(b, self, offsets) ==
    { <<self.position[1] + d[1], self.position[2] + d[2]>> : d \in
        { o \in offsets :
            /\ _is_valid_position(self.position[1] + o[1], self.position[2] + o[2])
            /\ LET piece == get_piece(b, self.position[1] + o[1], self.position[2] + o[2])
               IN  piece = None \/ _is_enemy(self, piece) } }

KnightMoves(b, self) == StepMoves(b, self, KnightOffsets)

\* Pawn.get_possible_moves; ep is the board's en_passant_target
PawnMoves(b, ep, self) ==
    LET row == self.position[1]
        col == self.position[2]
        direction == IF self.color = "white" THEN -1 ELSE 1
        one == IF _is_valid_position(row + direction, col)
                  /\ get_piece(b, row + direction, col) = None
               THEN { <<row + direction, col>> } ELSE {}
        \* the two-square destination is not range-checked by the code
        two == IF one # {} /\ ~self.has_moved
                  /\ get_piece(b, row + 2 * direction, col) = None
               THEN { <<row + 2 * direction, col>> } ELSE {}
        diag == { <<row + direction, col + dc>> : dc \in
                    { x \in {-1, 1} :
                        /\ _is_valid_position(row + direction, col + x)
                        /\ _is_enemy(self, get_piece(b, row + direction, col + x)) } }
        enp == IF ep # NoSquare /\ row + direction = ep[1] /\ Abs(col - ep[2]) = 1
               THEN { ep } ELSE {}
    IN  one \cup two \cup diag \cup enp

\* King.get_possible_moves: adjacent squares plus the castling destinations
KingMoves(b, self) ==
    LET row == self.position[1]
        rook_kingside == get_piece(b, row, 7)
        rook_queenside == get_piece(b, row, 0)
        kingside == IF /\ ~self.has_moved
                       /\ rook_kingside.type = "rook" /\ ~rook_kingside.has_moved
                       /\ get_piece(b, row, 5) = None /\ get_piece(b, row, 6) = None
                    THEN { <<row, 6>> } ELSE {}
        queenside == IF /\ ~self.has_moved
                        /\ rook_queenside.type = "rook" /\ ~rook_queenside.has_moved
                        /\ get_piece(b, row, 1) = None /\ get_piece(b, row, 2) = None
                        /\ get_piece(b, row, 3) = None
                     THEN { <<row, 2>> } ELSE {}
    IN  StepMoves(b, self, QueenDirections) \cup kingside \cup queenside

\* piece.get_possible_moves(board), dispatched on the piece's class
get_possible_moves(b, ep, self) ==
    CASE self.type = "pawn" -> PawnMoves(b, ep, self)
      [] self.type = "rook" -> RookMoves(b, self)
      [] self.type = "knight" -> KnightMoves(b, self)
      [] self.type = "bishop" -> BishopMoves(b, self)
      [] self.type = "queen" -> QueenMoves(b, self)
      [] self.type = "king" -> KingMoves(b, self)
      [] OTHER -> {}

----------------------------------------------------------------------------
(* Board queries *)

\* Board.find_king: the first king of the colour in row-major order
find_king(b, color) ==
    LET kings == { sq \in Squares : b[sq].type = "king" /\ b[sq].color = color } IN
    IF kings = {} THEN NoSquare
    ELSE CHOOSE k \in kings :
            \A o \in kings : k[1] < o[1] \/ (k[1] = o[1] /\ k[2] <= o[2])

\* Board.is_square_attacked: some piece of by_color has the square among its
\* pseudo-legal destinations
is_square_attacked(b, ep, position, by_color) ==
    \E sq \in Squares :
        /\ b[sq] # None
        /\ b[sq].color = by_color
        /\ position \in get_possible_moves(b, ep, b[sq])

\* Board.is_in_check
is_in_check(b, ep, color) ==
    LET king_pos == find_king(b, color) IN
    IF king_pos = NoSquare THEN FALSE
    ELSE is_square_attacked(b, ep, king_pos, Opponent(color))

----------------------------------------------------------------------------
(* Board.get_legal_moves: it simulates every non-castling candidate on the  *)
(* live board and restores it, so it is modelled as a run that returns the  *)
(* legal destinations and the board it leaves behind.                       *)

\* lines 182-201: a castling candidate is kept unless the king is in check or
\* the adjacent or the landing square is attacked
CastlingAllowed(b, ep, piece, row, col, move) ==
    LET enemy_color == Opponent(piece.color) IN
    /\ ~is_in_check(b, ep, piece.color)
    /\ IF move[2] > col
       THEN ~(is_square_attacked(b, ep, <<row, col + 1>>, enemy_color)
              \/ is_square_attacked(b, ep, <<row, col + 2>>, enemy_color))
       ELSE ~(is_square_attacked(b, ep, <<row, col - 1>>, enemy_color)
              \/ is_square_attacked(b, ep, <<row, col - 2>>, enemy_color))

\* lines 204-208: the piece is put on the destination and the source cleared
SimulateMove(b, piece, row, col, move) ==
    set_piece(set_piece(b, move[1], move[2], piece), row, col, None)

\* a restore that puts the piece back but leaves the destination empty
RestoreMoveDropsCaptured(b, piece, row, col, move, captured_piece) ==
    set_piece(set_piece(b, row, col, piece), move[1], move[2], None)

\* a restore that leaves the piece believing it stands on the destination
RestoreMoveLeavesPosition(b, piece, row, col, move, captured_piece) ==
    LET b1 == set_piece(b, row, col, piece)
        b2 == set_piece(b1, move[1], move[2], captured_piece)
    IN  [b2 EXCEPT ![<<row, col>>].position = move]

\* a restore that puts back what the destination held and not the piece
RestoreMoveForgetsPiece(b, piece, row, col, move, captured_piece) ==
    set_piece(b, move[1], move[2], captured_piece)

\* lines 215-217: the piece goes back, the destination gets what it held
RestoreMove(b, piece, row, col, move, captured_piece) ==
    LET b1 == set_piece(b, row, col, piece)
        b2 == set_piece(b1, move[1], move[2], captured_piece)
    IN  [b2 EXCEPT ![<<row, col>>].position = piece.position]

\* the first candidate in the order of a row-major scan
FirstSquare(S) ==
    CHOOSE s \in S : \A o \in S : s[1] < o[1] \/ (s[1] = o[1] /\ s[2] <= o[2])

RECURSIVE LegalMovesLoop(_, _, _, _, _, _)
LegalMovesLoop(b, ep, piece, position, todo, legal) ==
    IF todo = {} THEN [board |-> b, legal_moves |-> legal]
    ELSE
      LET move == FirstSquare(todo)
          row == position[1]
          col == position[2]
      IN  IF piece.type = "king" /\ Abs(move[2] - col) = 2
          THEN IF CastlingAllowed(b, ep, piece, row, col, move)
               THEN LegalMovesLoop(b, ep, piece, position, todo \ {move}, legal \cup {move})
               ELSE LegalMovesLoop(b, ep, piece, position, todo \ {move}, legal)
          ELSE
            LET captured_piece == get_piece(b, move[1], move[2])
                sim == SimulateMove(b, piece, row, col, move)
                back == RestoreMove(sim, piece, row, col, move, captured_piece)
            IN  IF ~is_in_check(sim, ep, piece.color)
                THEN LegalMovesLoop(back, ep, piece, position, todo \ {move},
                                    legal \cup {move})
                ELSE LegalMovesLoop(back, ep, piece, position, todo \ {move}, legal)

\* Board.get_legal_moves(position): [legal_moves, board]
get_legal_moves_run(b, ep, position) ==
    LET piece == get_piece(b, position[1], position[2]) IN
    IF piece = None THEN [board |-> b, legal_moves |-> {}]
    ELSE LegalMovesLoop(b, ep, piece, position, get_possible_moves(b, ep, piece), {})

get_legal_moves(b, ep, position) == get_legal_moves_run(b, ep, position).legal_moves

\* Board.has_legal_moves: the row-major scan stops at the first piece of the
\* colour that has a legal move; [has_moves, board]
RECURSIVE HasLegalMovesLoop(_, _, _, _)
HasLegalMovesLoop(b, ep, color, todo) ==
    IF todo = {} THEN [board |-> b, has_moves |-> FALSE]
    ELSE LET sq == FirstSquare(todo)
             run == get_legal_moves_run(b, ep, sq)
         IN  IF run.legal_moves # {}
             THEN [board |-> run.board, has_moves |-> TRUE]
             ELSE HasLegalMovesLoop(run.board, ep, color, todo \ {sq})

has_legal_moves_run(b, ep, color) ==
    HasLegalMovesLoop(b, ep, color,
        { sq \in Squares : b[sq] # None /\ b[sq].color = color })

has_legal_moves(b, ep, color) == has_legal_moves_run(b, ep, color).has_moves


----------------------------------------------------------------------------
(* Game helpers *)

\* str.capitalize() of a colour name
Capitalize(color) ==
    CASE color = "white" -> "White"
      [] color = "black" -> "Black"
      [] OTHER -> color

Files == <<"a", "b", "c", "d", "e", "f", "g", "h">>

\* Game._get_move_notation
_get_move_notation(piece, from_pos, to_pos, captured) ==
    IF piece.type = "king" /\ Abs(to_pos[2] - from_pos[2]) = 2
    THEN IF to_pos[2] > from_pos[2] THEN "O-O" ELSE "O-O-O"
    ELSE
      LET piece_symbol == CASE piece.type = "knight" -> "N"
                            [] piece.type = "king" -> "K"
                            [] piece.type = "queen" -> "Q"
                            [] piece.type = "rook" -> "R"
                            [] piece.type = "bishop" -> "B"
                            [] OTHER -> ""
          to_file == IF to_pos[2] \in 0 .. 7 THEN Files[to_pos[2] + 1] ELSE "?"
          to_rank == ToString(8 - to_pos[1])
      IN  IF piece_symbol = "" /\ captured # None
          THEN Files[from_pos[2] + 1] \o "x" \o to_file \o to_rank
          ELSE piece_symbol \o (IF captured # None THEN "x" ELSE "") \o to_file \o to_rank

\* the first letter of a piece's class name and of its colour, as written by
\* Game._get_position_hash (King and Knight share the letter K)
ClassInitial(type) ==
    CASE type = "pawn" -> "P"
      [] type = "rook" -> "R"
      [] type = "knight" -> "K"
      [] type = "bishop" -> "B"
      [] type = "queen" -> "Q"
      [] type = "king" -> "K"
      [] OTHER -> "-"

\* Game._get_position_hash: one fixed-width cell per square in row-major
\* order ("--" or class initial, colour initial, row, col), then the side
\* to move; kept as the cells and the side instead of their concatenation
_get_position_hash(b, turn) ==
    [cells |-> [sq \in Squares |->
                  IF b[sq] # None
                  THEN <<ClassInitial(b[sq].type), IF b[sq].color = "white" THEN "w" ELSE "b">>
                  ELSE <<"-", "-">>],
     turn |-> turn]

\* list.count
Count(seq, x) == Cardinality({ i \in 1 .. Len(seq) : seq[i] = x })

\* Game._is_insufficient_material
_is_insufficient_material(b) ==
    LET pieces == { sq \in Squares : b[sq] # None /\ b[sq].type # "king" }
        bishops == { sq \in Squares : b[sq] # None /\ b[sq].type = "bishop" }
    IN  \/ Cardinality(pieces) = 0
        \/ /\ Cardinality(pieces) = 1
           /\ \A sq \in pieces : b[sq].type \in {"bishop", "knight"}
        \/ /\ Cardinality(pieces) = 2
           /\ \A sq \in pieces : b[sq].type = "bishop"
           /\ Cardinality(bishops) = 2
           /\ \A s1, s2 \in bishops : (s1[1] + s1[2]) % 2 = (s2[1] + s2[2]) % 2

\* a _set_game_over that does not record the winner
SetGameOverWithoutWinner(g, message, winner_, t) ==
    [g EXCEPT !.game_over = TRUE,
              !.status_message = message,
              !.finished_at = IF g.finished_at = NoStamp THEN <<t>> ELSE g.finished_at]

\* Game._mark_finished and Game._set_game_over
_set_game_over(g, message, winner_, t) ==
    [g EXCEPT !.game_over = TRUE,
              !.winner = winner_,
              !.status_message = message,
              !.finished_at = IF g.finished_at = NoStamp THEN <<t>> ELSE g.finished_at]

\* the Game object as one value
Self ==
    [board |-> board, board_ep |-> board_ep, current_turn |-> current_turn,
     move_history |-> move_history, captured_pieces |-> captured_pieces,
     game_over |-> game_over, winner |-> winner, status_message |-> status_message,
     finished_at |-> finished_at, en_passant_target |-> en_passant_target,
     halfmove_clock |-> halfmove_clock, position_history |-> position_history,
     ai_enabled |-> ai_enabled, ai_color |-> ai_color]

\* Game.__init__
NewGame ==
    [board |-> InitialBoard, board_ep |-> NoSquare, current_turn |-> "white",
     move_history |-> <<>>, captured_pieces |-> [white |-> <<>>, black |-> <<>>],
     game_over |-> FALSE, winner |-> NoColor, status_message |-> "White's turn",
     finished_at |-> NoStamp, en_passant_target |-> NoSquare,
     halfmove_clock |-> 0, position_history |-> <<>>,
     ai_enabled |-> TRUE, ai_color |-> "black"]


----------------------------------------------------------------------------
(* Game.make_move *)

\* str.lower() of the promotion choices a caller may send
Lower(str) ==
    CASE str = "Queen" -> "queen"
      [] str = "KNIGHT" -> "knight"
      [] OTHER -> str

\* piece_classes.get(promotion_piece.lower(), Queen)
PromotionClass(promotion_piece) ==
    IF Lower(promotion_piece) \in {"queen", "rook", "bishop", "knight"}
    THEN Lower(promotion_piece) ELSE "queen"

\* lines 150-177: the terminal state or the status, given whether the side now
\* to move is in check and what the scan for a legal move found and left
FinishScan(g1, in_check, moves_run, position_hash, t) ==
    LET has_moves == moves_run.has_moves
        g2 == [g1 EXCEPT !.board = moves_run.board]
        draw_by_fifty == g2.halfmove_clock >= 50
        draw_by_repetition == Count(g2.position_history, position_hash) >= 3
        draw_by_material == _is_insufficient_material(g2.board)
        winner_ == Opponent(g2.current_turn)
        g3 == CASE in_check /\ ~has_moves ->
                     _set_game_over(g2, "Checkmate! " \o Capitalize(winner_) \o " wins!",
                                    winner_, t)
                [] ~in_check /\ ~has_moves ->
                     _set_game_over(g2, "Stalemate! Game is a draw.", NoColor, t)
                [] has_moves /\ draw_by_fifty ->
                     _set_game_over(g2, "Draw by fifty-move rule!", NoColor, t)
                [] has_moves /\ ~draw_by_fifty /\ draw_by_repetition ->
                     _set_game_over(g2, "Draw by threefold repetition!", NoColor, t)
                [] has_moves /\ ~draw_by_fifty /\ ~draw_by_repetition /\ draw_by_material ->
                     _set_game_over(g2, "Draw by insufficient material!", NoColor, t)
                [] OTHER ->
                     [g2 EXCEPT !.status_message =
                        IF in_check
                        THEN Capitalize(g2.current_turn) \o " is in check!"
                        ELSE Capitalize(g2.current_turn) \o "'s turn"]
    IN  [game |-> g3, in_check |-> in_check]

\* a finish that looks at the clock before it looks for mate
FinishMoveClockFirst(g, position_hash, t) ==
    IF g.halfmove_clock >= 50
    THEN [game |-> _set_game_over([g EXCEPT !.current_turn = Opponent(g.current_turn)],
                                  "Draw by fifty-move rule!", NoColor, t),
          in_check |-> is_in_check(g.board, g.board_ep, Opponent(g.current_turn))]
    ELSE FinishScan([g EXCEPT !.current_turn = Opponent(g.current_turn)],
                    is_in_check(g.board, g.board_ep, Opponent(g.current_turn)),
                    has_legal_moves_run(g.board, g.board_ep, Opponent(g.current_turn)),
                    position_hash, t)

\* lines 146-177: switch turns, look for check and for a legal move, finish
FinishMove(g, position_hash, t) ==
    FinishScan([g EXCEPT !.current_turn = Opponent(g.current_turn)],
               is_in_check(g.board, g.board_ep, Opponent(g.current_turn)),
               has_legal_moves_run(g.board, g.board_ep, Opponent(g.current_turn)),
               position_hash, t)

\* a make_move that sets the en-passant target after a two-square move of
\* any piece
ApplyMoveTargetForAnyPiece(g, b0, piece0, from_pos, to_pos, promotion_piece) ==
    LET from_row == from_pos[1]
        from_col == from_pos[2]
        to_row == to_pos[1]
        to_col == to_pos[2]
        en_passant_capture == piece0.type = "pawn" /\ to_pos = g.en_passant_target
        captured == IF en_passant_capture THEN get_piece(b0, from_row, to_col)
                    ELSE get_piece(b0, to_row, to_col)
        b1 == IF en_passant_capture THEN set_piece(b0, from_row, to_col, None) ELSE b0
        caps == IF captured # None
                THEN [g.captured_pieces EXCEPT ![g.current_turn] = Append(@, captured)]
                ELSE g.captured_pieces
        is_castling == piece0.type = "king" /\ Abs(to_col - from_col) = 2
        b2 == IF is_castling
              THEN IF to_col > from_col
                   THEN move_piece(b1, <<from_row, 7>>, <<from_row, 5>>)
                   ELSE move_piece(b1, <<from_row, 0>>, <<from_row, 3>>)
              ELSE b1
        b3 == move_piece(b2, from_pos, to_pos)
        \* the moved object: on its new cell, or off the grid with its old position
        moved == IF get_piece(b2, from_row, from_col) = None THEN piece0
                 ELSE IF _is_valid_position(to_row, to_col) /\ to_pos # from_pos
                      THEN b3[to_pos]
                      ELSE [get_piece(b2, from_row, from_col) EXCEPT !.has_moved = TRUE]
        promoted == piece0.type = "pawn" /\ (to_row = 0 \/ to_row = 7)
        \* promotion_piece.lower() of a choice that is None
        raised == promoted /\ promotion_piece = NoValue
        new_piece == Piece(PromotionClass(promotion_piece), piece0.color, to_pos)
        b4 == IF promoted THEN set_piece(b3, to_row, to_col, new_piece) ELSE b3
        piece == IF promoted THEN new_piece ELSE moved
        target == IF Abs(to_row - from_row) = 2 /\ ~promoted
                  THEN << (from_row + to_row) \div 2, to_col >> ELSE NoSquare
        clock == IF piece.type = "pawn" \/ captured # None THEN 0
                 ELSE g.halfmove_clock + 1
        position_hash == _get_position_hash(b4, g.current_turn)
        record == [from |-> from_pos, to |-> to_pos, listed |-> FALSE,
                   piece |-> PieceToDict(piece),
                   captured |-> IF captured # None THEN PieceToDict(captured) ELSE None,
                   notation |-> _get_move_notation(piece, from_pos, to_pos, captured),
                   promotion |-> IF promoted THEN piece.type ELSE NoValue]
    IN  IF raised
        THEN [game |-> [g EXCEPT !.board = b3, !.captured_pieces = caps],
              position_hash |-> NoValue, captured |-> captured, raised |-> TRUE]
        ELSE
        [game |-> [g EXCEPT !.board = b4,
                            !.board_ep = target,
                            !.en_passant_target = target,
                            !.captured_pieces = caps,
                            !.halfmove_clock = clock,
                            !.position_history = Append(@, position_hash),
                            !.move_history = Append(@, record)],
         position_hash |-> position_hash,
         captured |-> captured, raised |-> FALSE]

\* lines 70-144: the move is applied to the board and recorded
ApplyMove(g, b0, piece0, from_pos, to_pos, promotion_piece) ==
    LET from_row == from_pos[1]
        from_col == from_pos[2]
        to_row == to_pos[1]
        to_col == to_pos[2]
        en_passant_capture == piece0.type = "pawn" /\ to_pos = g.en_passant_target
        captured == IF en_passant_capture THEN get_piece(b0, from_row, to_col)
                    ELSE get_piece(b0, to_row, to_col)
        b1 == IF en_passant_capture THEN set_piece(b0, from_row, to_col, None) ELSE b0
        caps == IF captured # None
                THEN [g.captured_pieces EXCEPT ![g.current_turn] = Append(@, captured)]
                ELSE g.captured_pieces
        is_castling == piece0.type = "king" /\ Abs(to_col - from_col) = 2
        b2 == IF is_castling
              THEN IF to_col > from_col
                   THEN move_piece(b1, <<from_row, 7>>, <<from_row, 5>>)
                   ELSE move_piece(b1, <<from_row, 0>>, <<from_row, 3>>)
              ELSE b1
        b3 == move_piece(b2, from_pos, to_pos)
        \* the moved object: on its new cell, or off the grid with its old position
        moved == IF get_piece(b2, from_row, from_col) = None THEN piece0
                 ELSE IF _is_valid_position(to_row, to_col) /\ to_pos # from_pos
                      THEN b3[to_pos]
                      ELSE [get_piece(b2, from_row, from_col) EXCEPT !.has_moved = TRUE]
        promoted == piece0.type = "pawn" /\ (to_row = 0 \/ to_row = 7)
        \* promotion_piece.lower() of a choice that is None
        raised == promoted /\ promotion_piece = NoValue
        new_piece == Piece(PromotionClass(promotion_piece), piece0.color, to_pos)
        b4 == IF promoted THEN set_piece(b3, to_row, to_col, new_piece) ELSE b3
        piece == IF promoted THEN new_piece ELSE moved
        target == IF piece.type = "pawn" /\ Abs(to_row - from_row) = 2 /\ ~promoted
                  THEN << (from_row + to_row) \div 2, to_col >> ELSE NoSquare
        clock == IF piece.type = "pawn" \/ captured # None THEN 0
                 ELSE g.halfmove_clock + 1
        position_hash == _get_position_hash(b4, g.current_turn)
        record == [from |-> from_pos, to |-> to_pos, listed |-> FALSE,
                   piece |-> PieceToDict(piece),
                   captured |-> IF captured # None THEN PieceToDict(captured) ELSE None,
                   notation |-> _get_move_notation(piece, from_pos, to_pos, captured),
                   promotion |-> IF promoted THEN piece.type ELSE NoValue]
    IN  IF raised
        THEN [game |-> [g EXCEPT !.board = b3, !.captured_pieces = caps],
              position_hash |-> NoValue, captured |-> captured, raised |-> TRUE]
        ELSE
        [game |-> [g EXCEPT !.board = b4,
                            !.board_ep = target,
                            !.en_passant_target = target,
                            !.captured_pieces = caps,
                            !.halfmove_clock = clock,
                            !.position_history = Append(@, position_hash),
                            !.move_history = Append(@, record)],
         position_hash |-> position_hash,
         captured |-> captured, raised |-> FALSE]

\* lines 179-186: the result of a move that was made
MoveResult(fin, captured) ==
    [game |-> fin.game,
     result |-> [op |-> "make_move", success |-> TRUE,
                 message |-> fin.game.status_message,
                 in_check |-> fin.in_check,
                 game_over |-> fin.game.game_over,
                 winner |-> fin.game.winner,
                 captured |-> captured # None]]

\* lines 146-186 for the move that was applied
FinishApplied(applied, t) ==
    IF applied.raised
    THEN [game |-> applied.game,
          result |-> [op |-> "make_move", raised |-> "AttributeError"]]
    ELSE MoveResult(FinishMove(applied.game, applied.position_hash, t), applied.captured)

\* lines 62-186, given the run of get_legal_moves for the origin
MoveWithLegalMoves(g, run, from_pos, to_pos, promotion_piece, t) ==
    IF to_pos \notin run.legal_moves
    THEN [game |-> [g EXCEPT !.board = run.board],
          result |-> [op |-> "make_move", success |-> FALSE,
                      message |-> "Illegal move"]]
    ELSE FinishApplied(ApplyMove(g, run.board,
                                 get_piece(run.board, from_pos[1], from_pos[2]),
                                 from_pos, to_pos, promotion_piece), t)

\* the piece at from is missing or not of the side to move (lines 52-60)
WrongPiece(g, piece) ==
    IF piece = None
    THEN [game |-> g,
          result |-> [op |-> "make_move", success |-> FALSE,
                      message |-> "No piece at that position"]]
    ELSE [game |-> g,
          result |-> [op |-> "make_move", success |-> FALSE,
                      message |-> "It's " \o g.current_turn \o "'s turn"]]

\* Game.make_move: [game, result]
make_move(g, from_pos, to_pos, promotion_piece, t) ==
    IF g.game_over
    THEN [game |-> g,
          result |-> [op |-> "make_move", success |-> FALSE,
                      message |-> "Game is over", game_over |-> TRUE]]
    ELSE IF get_piece(g.board, from_pos[1], from_pos[2]) = None
            \/ get_piece(g.board, from_pos[1], from_pos[2]).color # g.current_turn
         THEN WrongPiece(g, get_piece(g.board, from_pos[1], from_pos[2]))
         ELSE MoveWithLegalMoves(g, get_legal_moves_run(g.board, g.board_ep, from_pos),
                                 from_pos, to_pos, promotion_piece, t)


----------------------------------------------------------------------------
(* Game.resign, Game.timeout, Game.undo_move *)

\* a resignation that names the resigning colour the winner
ResignWinsForResigner(g, color, t) ==
    LET g1 == _set_game_over(g, Capitalize(color) \o " resigned. "
                                  \o Capitalize(color) \o " wins!", color, t)
    IN  [game |-> g1,
         result |-> [op |-> "resign", success |-> TRUE, message |-> g1.status_message,
                     game_over |-> TRUE, winner |-> g1.winner]]

\* Game.resign: [game, result]
resign(g, color, t) ==
    LET winner_ == IF color = "white" THEN "black" ELSE "white"
        g1 == _set_game_over(g, Capitalize(color) \o " resigned. "
                                  \o Capitalize(winner_) \o " wins!", winner_, t)
    IN  [game |-> g1,
         result |-> [op |-> "resign", success |-> TRUE, message |-> g1.status_message,
                     game_over |-> TRUE, winner |-> g1.winner]]

\* a timeout that also passes the turn
TimeoutPassesTurn(g, color, t) ==
    LET winner_ == IF color = "white" THEN "black" ELSE "white"
        g1 == _set_game_over([g EXCEPT !.current_turn = Opponent(g.current_turn)],
                             "Time out! " \o Capitalize(winner_) \o " wins!", winner_, t)
    IN  [game |-> g1,
         result |-> [op |-> "timeout", success |-> TRUE, message |-> g1.status_message,
                     game_over |-> TRUE, winner |-> g1.winner]]

\* Game.timeout: [game, result]
timeout(g, color, t) ==
    LET winner_ == IF color = "white" THEN "black" ELSE "white"
        g1 == _set_game_over(g, "Time out! " \o Capitalize(winner_) \o " wins!", winner_, t)
    IN  [game |-> g1,
         result |-> [op |-> "timeout", success |-> TRUE, message |-> g1.status_message,
                     game_over |-> TRUE, winner |-> g1.winner]]

\* an undo of one ply whoever moved last
OnePlyToUndo(g) == 1

\* lines 257-263: two plies when the last mover was the automated colour
MovesToUndo(g) ==
    IF /\ g.ai_enabled
       /\ Len(g.move_history) >= 2
       /\ g.move_history[Len(g.move_history)].piece.color = g.ai_color
    THEN 2 ELSE 1

\* move['from'] == list(from_pos): a list equals a list, never a tuple; the
\* squares of a record are tuples until the history has been through JSON
SameSquareAsList(move, key, pos) ==
    move.listed /\ (IF key = "from" THEN move.from ELSE move.to) = pos

\* lines 294-300: was_first_move, scanned over the remaining history
WasFirstMove(history, piece_data, from_pos) ==
    ~ \E i \in 1 .. Len(history) :
        /\ (SameSquareAsList(history[i], "from", from_pos)
            \/ SameSquareAsList(history[i], "to", from_pos))
        /\ history[i].piece.color = piece_data.color
        /\ history[i].piece.type = piece_data.type

\* an undo of one ply that leaves the position history as it is
UndoOnePlyKeepsPositions(g) ==
    IF g.move_history = <<>> THEN g
    ELSE
      LET last_move == g.move_history[Len(g.move_history)]
          history == SubSeq(g.move_history, 1, Len(g.move_history) - 1)
          from_pos == last_move.from
          to_pos == last_move.to
          piece_data == last_move.piece
          piece == [Piece(piece_data.type, piece_data.color, from_pos) EXCEPT
                      !.has_moved = IF WasFirstMove(history, piece_data, from_pos)
                                    THEN FALSE ELSE piece_data.has_moved]
          b1 == set_piece(g.board, from_pos[1], from_pos[2], piece)
          b2 == set_piece(b1, to_pos[1], to_pos[2], None)
          captured_data == last_move.captured
          captured_piece == [Piece(captured_data.type, captured_data.color, to_pos) EXCEPT
                               !.has_moved = captured_data.has_moved]
          b3 == IF captured_data # None
                THEN set_piece(b2, to_pos[1], to_pos[2], captured_piece) ELSE b2
          color == IF captured_data.color = "black" THEN "white" ELSE "black"
          caps == IF captured_data # None /\ g.captured_pieces[color] # <<>>
                  THEN [g.captured_pieces EXCEPT
                          ![color] = SubSeq(@, 1, Len(@) - 1)]
                  ELSE g.captured_pieces
      IN  [g EXCEPT !.move_history = history,
                    !.board = b3,
                    !.captured_pieces = caps,
                    !.current_turn = Opponent(g.current_turn)]

\* lines 270-326: one ply unwound
UndoOnePly(g) ==
    IF g.move_history = <<>> THEN g
    ELSE
      LET last_move == g.move_history[Len(g.move_history)]
          history == SubSeq(g.move_history, 1, Len(g.move_history) - 1)
          from_pos == last_move.from
          to_pos == last_move.to
          piece_data == last_move.piece
          piece == [Piece(piece_data.type, piece_data.color, from_pos) EXCEPT
                      !.has_moved = IF WasFirstMove(history, piece_data, from_pos)
                                    THEN FALSE ELSE piece_data.has_moved]
          b1 == set_piece(g.board, from_pos[1], from_pos[2], piece)
          b2 == set_piece(b1, to_pos[1], to_pos[2], None)
          captured_data == last_move.captured
          captured_piece == [Piece(captured_data.type, captured_data.color, to_pos) EXCEPT
                               !.has_moved = captured_data.has_moved]
          b3 == IF captured_data # None
                THEN set_piece(b2, to_pos[1], to_pos[2], captured_piece) ELSE b2
          color == IF captured_data.color = "black" THEN "white" ELSE "black"
          caps == IF captured_data # None /\ g.captured_pieces[color] # <<>>
                  THEN [g.captured_pieces EXCEPT
                          ![color] = SubSeq(@, 1, Len(@) - 1)]
                  ELSE g.captured_pieces
      IN  [g EXCEPT !.move_history = history,
                    !.board = b3,
                    !.captured_pieces = caps,
                    !.current_turn = Opponent(g.current_turn),
                    !.position_history =
                        IF @ # <<>> THEN SubSeq(@, 1, Len(@) - 1) ELSE @]

\* an undo that reopens the game even when there is no move to undo
UndoReopensGame(g) ==
    LET g1 == IF g.move_history = <<>> THEN g
              ELSE IF MovesToUndo(g) = 2 THEN UndoOnePly(UndoOnePly(g)) ELSE UndoOnePly(g)
        g2 == [g1 EXCEPT !.game_over = FALSE, !.winner = NoColor,
                         !.finished_at = NoStamp]
        in_check == is_in_check(g2.board, g2.board_ep, g2.current_turn)
    IN  [game |-> g2,
         result |-> [op |-> "undo_move", success |-> g.move_history # <<>>,
                     message |-> IF g.move_history = <<>> THEN "No moves to undo"
                                 ELSE "Move undone",
                     in_check |-> in_check]]

\* an undo_move that reopens the game and leaves the finish marker set
UndoKeepsFinishMarker(g) ==
    IF g.move_history = <<>>
    THEN [game |-> g,
          result |-> [op |-> "undo_move", success |-> FALSE,
                      message |-> "No moves to undo"]]
    ELSE
      LET g1 == IF MovesToUndo(g) = 2 THEN UndoOnePly(UndoOnePly(g)) ELSE UndoOnePly(g)
          g2 == [g1 EXCEPT !.game_over = FALSE, !.winner = NoColor]
          in_check == is_in_check(g2.board, g2.board_ep, g2.current_turn)
          g3 == [g2 EXCEPT !.status_message =
                    IF in_check THEN Capitalize(g2.current_turn) \o " is in check!"
                    ELSE Capitalize(g2.current_turn) \o "'s turn"]
      IN  [game |-> g3,
           result |-> [op |-> "undo_move", success |-> TRUE, message |-> "Move undone",
                       in_check |-> in_check]]

\* Game.undo_move: [game, result]
undo_move(g) ==
    IF g.move_history = <<>>
    THEN [game |-> g,
          result |-> [op |-> "undo_move", success |-> FALSE,
                      message |-> "No moves to undo"]]
    ELSE
      LET g1 == IF MovesToUndo(g) = 2 THEN UndoOnePly(UndoOnePly(g)) ELSE UndoOnePly(g)
          g2 == [g1 EXCEPT !.game_over = FALSE, !.winner = NoColor,
                           !.finished_at = NoStamp]
          in_check == is_in_check(g2.board, g2.board_ep, g2.current_turn)
          g3 == [g2 EXCEPT !.status_message =
                    IF in_check THEN Capitalize(g2.current_turn) \o " is in check!"
                    ELSE Capitalize(g2.current_turn) \o "'s turn"]
      IN  [game |-> g3,
           result |-> [op |-> "undo_move", success |-> TRUE, message |-> "Move undone",
                       in_check |-> in_check]]

----------------------------------------------------------------------------
(* Board.from_dict, Game.from_dict *)

\* Board.from_dict: a piece of the named class on every cell that holds one.
\* (@@ <<>> leaves the function as it is and has TLC build the 64 cells once)
Board_from_dict(data) ==
    [sq \in Squares |->
        IF data.board[sq] = None THEN None
        ELSE [Piece(data.board[sq].type, data.board[sq].color, sq) EXCEPT
                !.has_moved = data.board[sq].has_moved]] @@ <<>>

\* Game.from_dict
Game_from_dict(data) ==
    [board |-> Board_from_dict(data.board),
     board_ep |-> data.board.en_passant_target,
     current_turn |-> data.current_turn,
     move_history |-> data.move_history,
     captured_pieces |-> data.captured_pieces,
     game_over |-> data.game_over, winner |-> data.winner,
     status_message |-> data.status_message, finished_at |-> data.finished_at,
     en_passant_target |-> data.en_passant_target,
     halfmove_clock |-> data.halfmove_clock,
     position_history |-> data.position_history,
     ai_enabled |-> data.ai_enabled, ai_color |-> data.ai_color]

\* Game.to_dict: the fields, the pieces as dictionaries. game_id, which
\* Game.__init__ draws with uuid4 and no operation reads, is not a field of
\* the model
Game_to_dict(g) ==
    [board |-> [board |-> [sq \in Squares |->
                              IF g.board[sq] = None THEN None
                              ELSE PieceToDict(g.board[sq])],
                en_passant_target |-> g.board_ep],
     current_turn |-> g.current_turn, move_history |-> g.move_history,
     captured_pieces |-> g.captured_pieces,
     game_over |-> g.game_over, winner |-> g.winner,
     status_message |-> g.status_message, finished_at |-> g.finished_at,
     en_passant_target |-> g.en_passant_target,
     halfmove_clock |-> g.halfmove_clock,
     position_history |-> g.position_history,
     ai_enabled |-> g.ai_enabled, ai_color |-> g.ai_color]

----------------------------------------------------------------------------
(* ai.py *)

\* what choose_ai_move returns when it returns None
NoMove == <<>>

\* ai._collect_legal_moves on the live game: the board that the calls of
\* Board.get_legal_moves, one per piece of the colour in row-major order,
\* leave behind
RECURSIVE CollectLoop(_, _, _)
CollectLoop(b, ep, todo) ==
    IF todo = {} THEN b
    ELSE LET sq == FirstSquare(todo)
         IN  CollectLoop(get_legal_moves_run(b, ep, sq).board, ep, todo \ {sq})

\* ai.choose_ai_move: the live game it leaves behind. The moves are collected
\* on the live board; every move explored is made on Game.from_dict(snapshot)
choose_ai_move_run(g) ==
    IF g.game_over \/ g.current_turn # g.ai_color THEN g
    ELSE [g EXCEPT !.board =
            CollectLoop(g.board, g.board_ep,
                        { sq \in Squares : g.board[sq] # None
                                             /\ g.board[sq].color = g.ai_color })]

\* ai._collect_legal_moves: every <<from, to>> of the colour
_collect_legal_moves(g, color) ==
    UNION { { <<sq, to>> : to \in get_legal_moves(g.board, g.board_ep, sq) } : sq \in
              { s \in Squares : g.board[s] # None /\ g.board[s].color = color } }

\* the scores are floats that are sums of multiples of 0.05: the model counts
\* them in hundredths. math.inf is a number above every score
inf == 100000000
WinScore == 1000000

max(a, b) == IF a >= b THEN a ELSE b
min(a, b) == IF a <= b THEN a ELSE b

\* ai.PIECE_VALUES
PIECE_VALUES(type) ==
    CASE type = "pawn" -> 100
      [] type = "knight" -> 300
      [] type = "bishop" -> 325
      [] type = "rook" -> 500
      [] type = "queen" -> 900
      [] OTHER -> 0

RECURSIVE MaterialLoop(_, _, _)
MaterialLoop(b, todo, score) ==
    IF todo = {} THEN score
    ELSE LET sq == FirstSquare(todo)
         IN  MaterialLoop(b, todo \ {sq}, score + PIECE_VALUES(b[sq].type))

\* ai._material_score
_material_score(g, color) ==
    MaterialLoop(g.board, { sq \in Squares : g.board[sq] # None
                                                /\ g.board[sq].color = color }, 0)

RECURSIVE MobilityLoop(_, _, _, _)
MobilityLoop(b, ep, todo, total) ==
    IF todo = {} THEN total
    ELSE LET sq == FirstSquare(todo)
         IN  MobilityLoop(b, ep, todo \ {sq},
                          total + Cardinality(get_legal_moves(b, ep, sq)))

\* ai._mobility_score
_mobility_score(g, color) ==
    MobilityLoop(g.board, g.board_ep,
                 { sq \in Squares : g.board[sq] # None /\ g.board[sq].color = color }, 0)

\* ai.evaluate_position
evaluate_position(g, ai_color_) ==
    LET opponent == Opponent(ai_color_)
        material == _material_score(g, ai_color_) - _material_score(g, opponent)
        mobility == _mobility_score(g, ai_color_) - _mobility_score(g, opponent)
        check_bonus == IF is_in_check(g.board, g.board_ep, opponent) THEN 50 ELSE 0
        check_penalty == IF is_in_check(g.board, g.board_ep, ai_color_) THEN -60 ELSE 0
    IN  material + (5 * mobility) + check_bonus + check_penalty

\* ai.evaluate_terminal
evaluate_terminal(g, ai_color_) ==
    IF g.game_over
    THEN IF g.winner = ai_color_ THEN WinScore
         ELSE IF g.winner = NoColor THEN 0
         ELSE -WinScore
    ELSE evaluate_position(g, ai_color_)

\* ai._simulate_move: [ok, game]; ok is FALSE where the code returns None
Simulated(r) == [ok |-> r.result.success, game |-> r.game]

_simulate_move(snapshot, move) ==
    Simulated(make_move(Game_from_dict(snapshot), move[1], move[2], "queen", now))

\* the next move of a list that _collect_legal_moves built: the pieces in
\* row-major order, the destinations of a piece in row-major order
FirstMove(moves) ==
    LET from_pos == FirstSquare({ m[1] : m \in moves })
    IN  <<from_pos, FirstSquare({ m[2] : m \in { n \in moves : n[1] = from_pos } })>>

RECURSIVE minimax(_, _, _, _, _, _)
RECURSIVE MaximizingLoop(_, _, _, _, _, _, _)
RECURSIVE MinimizingLoop(_, _, _, _, _, _, _)

\* ai.minimax lines 84-86, value being the new maximum
MaximizingCut(snapshot, rest, depth, ai_color_, alpha, beta, value) ==
    IF beta <= max(alpha, value) THEN value
    ELSE MaximizingLoop(snapshot, rest, depth, ai_color_, max(alpha, value), beta, value)

\* ai.minimax lines 80-83
MaximizingStep(snapshot, rest, depth, ai_color_, alpha, beta, value, simulated) ==
    IF ~simulated.ok
    THEN MaximizingLoop(snapshot, rest, depth, ai_color_, alpha, beta, value)
    ELSE MaximizingCut(snapshot, rest, depth, ai_color_, alpha, beta,
                       max(value, minimax(simulated.game, depth - 1, FALSE, ai_color_,
                                          alpha, beta)))

\* ai.minimax lines 78-87
MaximizingLoop(snapshot, moves, depth, ai_color_, alpha, beta, value) ==
    IF moves = {} THEN value
    ELSE MaximizingStep(snapshot, moves \ {FirstMove(moves)}, depth, ai_color_, alpha, beta,
                        value, _simulate_move(snapshot, FirstMove(moves)))

\* a cut-off test that reads alpha <= beta
MinimizingCutWhenOpen(snapshot, rest, depth, ai_color_, alpha, beta, value) ==
    IF alpha <= min(beta, value) THEN value
    ELSE MinimizingLoop(snapshot, rest, depth, ai_color_, alpha, min(beta, value), value)

\* ai.minimax lines 95-97, value being the new minimum
MinimizingCut(snapshot, rest, depth, ai_color_, alpha, beta, value) ==
    IF min(beta, value) <= alpha THEN value
    ELSE MinimizingLoop(snapshot, rest, depth, ai_color_, alpha, min(beta, value), value)

\* ai.minimax lines 91-94
MinimizingStep(snapshot, rest, depth, ai_color_, alpha, beta, value, simulated) ==
    IF ~simulated.ok
    THEN MinimizingLoop(snapshot, rest, depth, ai_color_, alpha, beta, value)
    ELSE MinimizingCut(snapshot, rest, depth, ai_color_, alpha, beta,
                       min(value, minimax(simulated.game, depth - 1, TRUE, ai_color_,
                                          alpha, beta)))

\* ai.minimax lines 89-98
MinimizingLoop(snapshot, moves, depth, ai_color_, alpha, beta, value) ==
    IF moves = {} THEN value
    ELSE MinimizingStep(snapshot, moves \ {FirstMove(moves)}, depth, ai_color_, alpha, beta,
                        value, _simulate_move(snapshot, FirstMove(moves)))

\* ai.minimax. Board.get_legal_moves hands the board back as it found it, so
\* the snapshot is taken of g
minimax(g, depth, maximizing, ai_color_, alpha, beta) ==
    IF g.game_over \/ depth = 0 \/ _collect_legal_moves(g, g.current_turn) = {}
    THEN evaluate_terminal(g, ai_color_)
    ELSE IF maximizing
         THEN MaximizingLoop(Game_to_dict(g), _collect_legal_moves(g, g.current_turn),
                             depth, ai_color_, alpha, beta, -inf)
         ELSE MinimizingLoop(Game_to_dict(g), _collect_legal_moves(g, g.current_turn),
                             depth, ai_color_, alpha, beta, inf)

RECURSIVE BestLoop(_, _, _, _, _)

\* a choice that keeps the moves with the lowest score
BestKeepLowest(snapshot, rest, ai_color_, best_score, best_moves, move, score) ==
    IF best_moves = {} \/ score < best_score
    THEN BestLoop(snapshot, rest, ai_color_, score, {move})
    ELSE IF score = best_score
         THEN BestLoop(snapshot, rest, ai_color_, best_score, best_moves \cup {move})
         ELSE BestLoop(snapshot, rest, ai_color_, best_score, best_moves)

\* ai.choose_ai_move lines 55-59
BestKeep(snapshot, rest, ai_color_, best_score, best_moves, move, score) ==
    IF best_moves = {} \/ score > best_score
    THEN BestLoop(snapshot, rest, ai_color_, score, {move})
    ELSE IF score = best_score
         THEN BestLoop(snapshot, rest, ai_color_, best_score, best_moves \cup {move})
         ELSE BestLoop(snapshot, rest, ai_color_, best_score, best_moves)

\* ai.choose_ai_move lines 49-54
BestStep(snapshot, rest, ai_color_, best_score, best_moves, move, simulated) ==
    IF ~simulated.ok
    THEN BestLoop(snapshot, rest, ai_color_, best_score, best_moves)
    ELSE BestKeep(snapshot, rest, ai_color_, best_score, best_moves, move,
                  minimax(simulated.game, 1, FALSE, ai_color_, -inf, inf))

\* ai.choose_ai_move lines 48-59: best_moves, which is empty while best_score
\* is None
BestLoop(snapshot, moves, ai_color_, best_score, best_moves) ==
    IF moves = {} THEN best_moves
    ELSE BestStep(snapshot, moves \ {FirstMove(moves)}, ai_color_, best_score, best_moves,
                  FirstMove(moves), _simulate_move(snapshot, FirstMove(moves)))

\* ai.choose_ai_move line 61: the moves random.choice may draw
random_choice(best_moves, moves) == IF best_moves = {} THEN moves ELSE best_moves

\* ai.choose_ai_move lines 41-61, moves being the collected legal moves
ChooseAmong(g, moves) ==
    IF moves = {} THEN {NoMove}
    ELSE random_choice(BestLoop(Game_to_dict(choose_ai_move_run(g)), moves, g.ai_color,
                                0, {}), moves)

\* ai.choose_ai_move: the moves it may return. It returns None for a finished
\* game, out of turn and without a legal move; otherwise random.choice picks
\* among the best-scored legal moves, or among all of them when none was
\* scored
choose_ai_move(g) ==
    IF g.game_over \/ g.current_turn # g.ai_color THEN {NoMove}
    ELSE ChooseAmong(g, _collect_legal_moves(g, g.ai_color))

\* make_ai_move returning None
NoResult == [op |-> "make_ai_move", success |-> FALSE, message |-> NoValue]

\* lines 362-363: result['ai_move'] on success
ReportAIMove(r, ai_move) ==
    IF r.result.success
    THEN [game |-> r.game,
          result |-> r.result @@ ("ai_move" :> [from |-> ai_move[1], to |-> ai_move[2]])]
    ELSE r

\* a make_ai_move that makes the move and does not report it
MakeAIMoveUnreported(g, ai_move, t) ==
    IF ~g.ai_enabled \/ g.game_over \/ g.current_turn # g.ai_color
    THEN [game |-> g, result |-> NoResult]
    ELSE IF ai_move = NoMove
         THEN [game |-> choose_ai_move_run(g), result |-> NoResult]
         ELSE make_move(choose_ai_move_run(g), ai_move[1], ai_move[2], "queen", t)

\* a make_ai_move that does not look at ai_enabled
MakeAIMoveWhenDisabled(g, ai_move, t) ==
    IF g.game_over \/ g.current_turn # g.ai_color
    THEN [game |-> g, result |-> NoResult]
    ELSE IF ai_move = NoMove
         THEN [game |-> choose_ai_move_run(g), result |-> NoResult]
         ELSE ReportAIMove(make_move(choose_ai_move_run(g), ai_move[1], ai_move[2],
                                     "queen", t), ai_move)

\* Game.make_ai_move: [game, result]; ai_move is what choose_ai_move returned
make_ai_move(g, ai_move, t) ==
    IF ~g.ai_enabled \/ g.game_over \/ g.current_turn # g.ai_color
    THEN [game |-> g, result |-> NoResult]
    ELSE IF ai_move = NoMove
         THEN [game |-> choose_ai_move_run(g), result |-> NoResult]
         ELSE ReportAIMove(make_move(choose_ai_move_run(g), ai_move[1], ai_move[2],
                                     "queen", t), ai_move)

----------------------------------------------------------------------------
(* The state machine *)

\* the variables take the fields of a Game value
SetGame(g) ==
    /\ board' = g.board
    /\ board_ep' = g.board_ep
    /\ current_turn' = g.current_turn
    /\ move_history' = g.move_history
    /\ captured_pieces' = g.captured_pieces
    /\ game_over' = g.game_over
    /\ winner' = g.winner
    /\ status_message' = g.status_message
    /\ finished_at' = g.finished_at
    /\ en_passant_target' = g.en_passant_target
    /\ halfmove_clock' = g.halfmove_clock
    /\ position_history' = g.position_history
    /\ ai_enabled' = g.ai_enabled
    /\ ai_color' = g.ai_color


\* the square of a file (1 = a .. 8 = h) and a rank (1 .. 8)
Sq(file, rank) == <<8 - rank, file - 1>>

\* bounds of the exploration: the length of the move history and the value
\* of the halfmove clock up to which make_move is called
MaxPlies == 8
MaxClock == 2
\* the games that run to a draw stop counting once the clock has got there
MaxDrawClock == 50

\* the moves callers send: a white pawn storm on the g-file, Black developing
\* and castling short, an en-passant capture, a promotion
WhiteInputs ==
    { <<Sq(7, 2), Sq(7, 4)>>,     \* g2-g4
      <<Sq(7, 4), Sq(7, 5)>>,     \* g4-g5
      <<Sq(7, 5), Sq(7, 6)>>,     \* g5-g6
      <<Sq(7, 6), Sq(8, 7)>>,     \* g6xh7
      <<Sq(7, 5), Sq(6, 6)>>,     \* g5xf6 en passant
      <<Sq(8, 7), Sq(8, 8)>>,     \* h7-h8 promotes
      <<Sq(8, 7), Sq(7, 8)>> }    \* h7xg8 promotes

BlackInputs ==
    { <<Sq(5, 7), Sq(5, 6)>>,     \* e7-e6
      <<Sq(6, 8), Sq(5, 7)>>,     \* Bf8-e7
      <<Sq(7, 8), Sq(6, 6)>>,     \* Ng8-f6
      <<Sq(5, 8), Sq(7, 8)>>,     \* O-O
      <<Sq(6, 7), Sq(6, 5)>> }    \* f7-f5

MoveInputs == WhiteInputs \cup BlackInputs
PromotionInputs == {"queen", "KNIGHT", "king"}

\* the calls: <<from, to, promotion choice>>
CallInputs ==
    { <<m[1], m[2], "queen">> : m \in MoveInputs }
      \cup { <<m[1], m[2], p>> : m \in { x \in MoveInputs : x[1] = Sq(8, 7) },
                                 p \in PromotionInputs }

\* a new game; ai_enabled is True after Game() and is whatever the saved game
\* says after Game.from_dict
Init ==
    /\ board = NewGame.board
    /\ board_ep = NewGame.board_ep
    /\ current_turn = NewGame.current_turn
    /\ move_history = NewGame.move_history
    /\ captured_pieces = NewGame.captured_pieces
    /\ game_over = NewGame.game_over
    /\ winner = NewGame.winner
    /\ status_message = NewGame.status_message
    /\ finished_at = NewGame.finished_at
    /\ en_passant_target = NewGame.en_passant_target
    /\ halfmove_clock = NewGame.halfmove_clock
    /\ position_history = NewGame.position_history
    /\ ai_enabled \in BOOLEAN
    /\ ai_color = NewGame.ai_color
    /\ now = 1

\* a caller's make_move(from, to, promotion)
MakeMove(from_pos, to_pos, promotion_piece) ==
    /\ Len(move_history) < MaxPlies
    /\ halfmove_clock < MaxClock
    /\ SetGame(make_move(Self, from_pos, to_pos, promotion_piece, now).game)
    /\ UNCHANGED now

\* a caller's undo_move()
UndoMove ==
    /\ SetGame(undo_move(Self).game)
    /\ UNCHANGED now

\* a caller's resign(color)
Resign(color) ==
    /\ SetGame(resign(Self, color, now).game)
    /\ UNCHANGED now

\* a caller's timeout(color)
Timeout(color) ==
    /\ SetGame(timeout(Self, color, now).game)
    /\ UNCHANGED now

\* a caller's make_move(from, to, promotion) in a game followed up to the draw
Move(from_pos, to_pos, promotion_piece) ==
    /\ halfmove_clock < MaxDrawClock
    /\ SetGame(make_move(Self, from_pos, to_pos, promotion_piece, now).game)
    /\ UNCHANGED now

\* Game.make_ai_move lines 346-356: what its call of choose_ai_move, made once
\* the game is found enabled, running and in the automated colour's turn,
\* may return
AIChoices(g) ==
    IF ~g.ai_enabled \/ g.game_over \/ g.current_turn # g.ai_color THEN {NoMove}
    ELSE choose_ai_move(g)

\* a caller's make_ai_move()
MakeAIMove ==
    /\ halfmove_clock < MaxDrawClock
    /\ \E ai_move \in AIChoices(Self) :
          SetGame(make_ai_move(Self, ai_move, now).game)
    /\ UNCHANGED now

\* the core driven move by move: make_move and undo_move
Next ==
    \/ \E c \in CallInputs : MakeMove(c[1], c[2], c[3])
    \/ UndoMove

Spec == Init /\ [][Next]_vars

\* the variables hold the fields of a Game value
StartFrom(g) ==
    /\ board = g.board
    /\ board_ep = g.board_ep
    /\ current_turn = g.current_turn
    /\ move_history = g.move_history
    /\ captured_pieces = g.captured_pieces
    /\ game_over = g.game_over
    /\ winner = g.winner
    /\ status_message = g.status_message
    /\ finished_at = g.finished_at
    /\ en_passant_target = g.en_passant_target
    /\ halfmove_clock = g.halfmove_clock
    /\ position_history = g.position_history
    /\ ai_enabled = g.ai_enabled
    /\ ai_color = g.ai_color
    /\ now = 1

\* a new game driven to its end: the quickest mate, resignation, timeout
TerminalInputs ==
    { <<Sq(6, 2), Sq(6, 3)>>,     \* f2-f3
      <<Sq(7, 2), Sq(7, 4)>>,     \* g2-g4
      <<Sq(7, 4), Sq(7, 5)>>,     \* g4-g5
      <<Sq(5, 7), Sq(5, 6)>>,     \* e7-e6
      <<Sq(4, 8), Sq(8, 4)>> }    \* Qd8-h4

NextTerminal ==
    \/ \E m \in TerminalInputs : MakeMove(m[1], m[2], "queen")
    \/ UndoMove
    \/ \E color \in Colors : Resign(color)
    \/ \E color \in Colors : Timeout(color)

SpecTerminal == Init /\ [][NextTerminal]_vars

\* a saved game loaded with Game.from_dict: king and queen against king,
\* White to move, one move from mate and from stalemate
EndgameCells ==
    [sq \in Squares |->
        CASE sq = Sq(6, 7) -> [type |-> "king", color |-> "white",
                               position |-> sq, has_moved |-> TRUE]
          [] sq = Sq(7, 5) -> [type |-> "queen", color |-> "white",
                               position |-> sq, has_moved |-> TRUE]
          [] sq = Sq(8, 8) -> [type |-> "king", color |-> "black",
                               position |-> sq, has_moved |-> TRUE]
          [] OTHER -> None]

EndgameSnapshot(enabled) ==
    [board |-> [board |-> EndgameCells, en_passant_target |-> NoSquare],
     current_turn |-> "white", move_history |-> <<>>,
     captured_pieces |-> [white |-> <<>>, black |-> <<>>],
     game_over |-> FALSE, winner |-> NoColor, status_message |-> "White's turn",
     finished_at |-> NoStamp, en_passant_target |-> NoSquare,
     halfmove_clock |-> 0, position_history |-> <<>>,
     ai_enabled |-> enabled, ai_color |-> "black"]

EndgameSquares ==
    { Sq(5, 7), Sq(5, 8), Sq(6, 5), Sq(6, 6), Sq(6, 7), Sq(6, 8),
      Sq(7, 1), Sq(7, 5), Sq(7, 6), Sq(7, 7), Sq(7, 8),
      Sq(8, 4), Sq(8, 5), Sq(8, 6), Sq(8, 7), Sq(8, 8) }

InitEndgame == \E enabled \in BOOLEAN : StartFrom(Game_from_dict(EndgameSnapshot(enabled)))

NextEndgame ==
    \/ \E from_pos, to_pos \in EndgameSquares : MakeMove(from_pos, to_pos, "queen")
    \/ UndoMove

SpecEndgame == InitEndgame /\ [][NextEndgame]_vars

\* the saved endgame played on with the clock free to run: the mating, the
\* stalemating, a checking and a quiet queen move, the black king's replies
FiftyInputs ==
    { <<Sq(7, 5), Sq(7, 7)>>,     \* Qg5-g7 mate
      <<Sq(7, 5), Sq(7, 6)>>,     \* Qg5-g6 stalemate
      <<Sq(7, 5), Sq(6, 6)>>,     \* Qg5-f6 check
      <<Sq(7, 5), Sq(7, 1)>>,     \* Qg5-g1
      <<Sq(8, 8), Sq(8, 7)>>,     \* Kh8-h7
      <<Sq(8, 8), Sq(7, 8)>> }    \* Kh8-g8

NextFifty ==
    \/ \E m \in FiftyInputs : Move(m[1], m[2], "queen")
    \/ UndoMove
    \/ MakeAIMove

SpecFifty == InitEndgame /\ [][NextFifty]_vars

\* a new game in which the knights go out and back: Ng1-f3, Ng8-f6, Nf3-g1,
\* Nf6-g8
ShuffleInputs ==
    { <<Sq(7, 1), Sq(6, 3)>>, <<Sq(7, 8), Sq(6, 6)>>,
      <<Sq(6, 3), Sq(7, 1)>>, <<Sq(6, 6), Sq(7, 8)>> }

NextShuffle ==
    \/ \E m \in ShuffleInputs : Move(m[1], m[2], "queen")
    \/ UndoMove

SpecShuffle == Init /\ [][NextShuffle]_vars

\* a saved game as Game.to_dict writes it, before any move: the cells, the
\* side to move, the automated player
SavedGame(cells, turn, enabled, color) ==
    [board |-> [board |-> cells, en_passant_target |-> NoSquare],
     current_turn |-> turn, move_history |-> <<>>,
     captured_pieces |-> [white |-> <<>>, black |-> <<>>],
     game_over |-> FALSE, winner |-> NoColor,
     status_message |-> Capitalize(turn) \o "'s turn",
     finished_at |-> NoStamp, en_passant_target |-> NoSquare,
     halfmove_clock |-> 0, position_history |-> <<>>,
     ai_enabled |-> enabled, ai_color |-> color]

\* a piece of a saved board
SavedPiece(type, color, sq) ==
    [type |-> type, color |-> color, position |-> sq, has_moved |-> TRUE]

\* a saved game with king, knight and pawn against king, White to move: the
\* white king and knight can change places between a1 and c2
KnightCells ==
    [sq \in Squares |->
        CASE sq = Sq(1, 1) -> SavedPiece("king", "white", sq)
          [] sq = Sq(2, 4) -> SavedPiece("knight", "white", sq)
          [] sq = Sq(8, 2) -> SavedPiece("pawn", "white", sq)
          [] sq = Sq(8, 8) -> SavedPiece("king", "black", sq)
          [] OTHER -> None]

KnightInputs ==
    { <<Sq(2, 4), Sq(3, 2)>>,     \* Nb4-c2
      <<Sq(3, 2), Sq(2, 4)>>,     \* Nc2-b4
      <<Sq(1, 1), Sq(2, 1)>>,     \* Ka1-b1
      <<Sq(3, 2), Sq(1, 1)>>,     \* Nc2-a1
      <<Sq(2, 1), Sq(3, 2)>>,     \* Kb1-c2
      <<Sq(8, 8), Sq(7, 8)>>,     \* Kh8-g8
      <<Sq(7, 8), Sq(8, 8)>>,     \* Kg8-h8
      <<Sq(7, 8), Sq(7, 7)>>,     \* Kg8-g7
      <<Sq(7, 7), Sq(8, 8)>> }    \* Kg7-h8

InitKnight ==
    \E enabled \in BOOLEAN :
        StartFrom(Game_from_dict(SavedGame(KnightCells, "white", enabled, "black")))

NextKnight ==
    \E m \in KnightInputs : Move(m[1], m[2], "queen")

SpecKnight == InitKnight /\ [][NextKnight]_vars

\* a saved game with a white pawn on a7 about to promote, with or without a
\* white bishop on c6 (a8 and c6 are squares of one colour), White to move
PromotionCells(with_bishop) ==
    [sq \in Squares |->
        CASE sq = Sq(5, 1) -> SavedPiece("king", "white", sq)
          [] sq = Sq(1, 7) -> SavedPiece("pawn", "white", sq)
          [] sq = Sq(3, 6) /\ with_bishop -> SavedPiece("bishop", "white", sq)
          [] sq = Sq(8, 8) -> SavedPiece("king", "black", sq)
          [] OTHER -> None]

MaterialInputs ==
    ({ <<Sq(1, 7), Sq(1, 8)>> } \X { "queen", "bishop", "knight" })      \* a7-a8
        \cup ({ <<Sq(8, 8), Sq(7, 7)>>,     \* Kh8-g7
                <<Sq(8, 8), Sq(8, 7)>>,     \* Kh8-h7
                <<Sq(5, 1), Sq(5, 2)>>,     \* Ke1-e2
                <<Sq(5, 1), Sq(4, 1)>>,     \* Ke1-d1
                <<Sq(3, 6), Sq(4, 5)>> }    \* Bc6-d5
              \X { "queen" })

InitMaterial ==
    \E with_bishop, enabled \in BOOLEAN :
        StartFrom(Game_from_dict(SavedGame(PromotionCells(with_bishop), "white",
                                           enabled, "black")))

NextMaterial ==
    \/ \E c \in MaterialInputs : MakeMove(c[1][1], c[1][2], c[2])
    \/ UndoMove

SpecMaterial == InitMaterial /\ [][NextMaterial]_vars

\* a new game saved and loaded again with the automated player switched on or
\* off and given either colour, then the knights going out and back
InitLoaded ==
    \E enabled \in BOOLEAN, color \in Colors :
        StartFrom(Game_from_dict([Game_to_dict(NewGame) EXCEPT
                                     !.ai_enabled = enabled, !.ai_color = color]))

SpecLoaded == InitLoaded /\ [][NextShuffle]_vars

----------------------------------------------------------------------------
(* Vocabulary of the properties *)

\* piece type and colour on every square
Occupancy(b) == [sq \in Squares |-> <<b[sq].type, b[sq].color>>]

\* every <<from, to>> that Board.get_legal_moves offers the side to move
LegalCalls(g) ==
    UNION { { <<sq, to>> : to \in get_legal_moves(g.board, g.board_ep, sq) } : sq \in
              { s \in Squares : g.board[s] # None /\ g.board[s].color = g.current_turn } }

\* the board after the move is applied (game.py lines 70-122)
BoardAfter(g, m) ==
    ApplyMove(g, g.board, g.board[m[1]], m[1], m[2], "queen").game

\* kinds of move, by the rules of chess
IsCastling(g, m) ==
    g.board[m[1]].type = "king" /\ Abs(m[2][2] - m[1][2]) = 2

IsPromotion(g, m) ==
    g.board[m[1]].type = "pawn" /\ m[2][1] \in {0, 7}

\* a pawn takes, diagonally onto the empty square passed over, the enemy pawn
\* that made the immediately preceding two-square advance
IsEnPassant(g, m) ==
    /\ g.board[m[1]].type = "pawn"
    /\ g.en_passant_target # NoSquare
    /\ m[2] = g.en_passant_target
    /\ m[2][2] # m[1][2]
    /\ get_piece(g.board, m[2][1], m[2][2]) = None
    /\ g.move_history # <<>>
    /\ LET last == g.move_history[Len(g.move_history)]
           pawn == get_piece(g.board, m[1][1], m[2][2])
       IN  /\ last.piece.type = "pawn"
           /\ last.piece.color = Opponent(g.current_turn)
           /\ Abs(last.to[1] - last.from[1]) = 2
           /\ last.to = <<m[1][1], m[2][2]>>
           /\ pawn.type = "pawn" /\ pawn.color = Opponent(g.current_turn)

IsOrdinary(g, m) ==
    /\ _is_valid_position(m[2][1], m[2][2])
    /\ ~IsCastling(g, m) /\ ~IsPromotion(g, m) /\ ~IsEnPassant(g, m)

\* make_move(from, to) followed immediately by undo_move()
MoveThenUndo(g, m, promotion_piece) ==
    undo_move(make_move(g, m[1], m[2], promotion_piece, now).game).game

\* the undo that follows the move unwinds that move alone
UndoIsOnePly(g, m) ==
    MovesToUndo(make_move(g, m[1], m[2], "queen", now).game) = 1

----------------------------------------------------------------------------
(* C1 .. C10 *)

\* C1: in every reachable position, applying any destination that
\* get_legal_moves returns for a piece of the side to move (ordinary move,
\* capture, castling, en passant, promotion) leaves the mover's own king
\* not attacked by any enemy piece.
C1_LegalMovesKeepKingSafe ==
    \A m \in LegalCalls(Self) :
        LET after == BoardAfter(Self, m) IN
        ~is_in_check(after.board, after.board_ep, current_turn)

\* C2: an ordinary move (not castling, not en passant, not promotion)
\* followed immediately by undo_move restores the piece type and colour on
\* every square, the side to move and the terminal status; stated here for
\* the undo that unwinds the move just made, by either colour.
C2_UndoRestoresOrdinaryMove ==
    \A m \in LegalCalls(Self) :
        (~game_over /\ IsOrdinary(Self, m) /\ UndoIsOnePly(Self, m)) =>
            LET u == MoveThenUndo(Self, m, "queen") IN
            /\ Occupancy(u.board) = Occupancy(board)
            /\ u.current_turn = current_turn
            /\ u.game_over = game_over
            /\ u.winner = winner

\* C3: a successful make_move followed immediately by undo_move restores the
\* halfmove clock, so the clock never exceeds the number of moves in the
\* history.
C3_UndoRestoresHalfmoveClock ==
    /\ halfmove_clock <= Len(move_history)
    /\ \A m \in LegalCalls(Self) :
         (~game_over /\ UndoIsOnePly(Self, m)) =>
            MoveThenUndo(Self, m, "queen").halfmove_clock = halfmove_clock

\* C4: a successful castling move followed immediately by undo_move puts the
\* king back on its start square and the rook back on its corner, both
\* unmoved; when the undo unwinds the castling move alone, the occupancy is
\* the one before the move and the same castling move is offered again.
C4_UndoRestoresCastling ==
    \A m \in LegalCalls(Self) :
        (~game_over /\ IsCastling(Self, m)) =>
            LET u == MoveThenUndo(Self, m, "queen")
                corner == <<m[1][1], IF m[2][2] > m[1][2] THEN 7 ELSE 0>>
            IN  /\ u.board[m[1]].type = "king" /\ ~u.board[m[1]].has_moved
                /\ u.board[corner].type = "rook" /\ ~u.board[corner].has_moved
                /\ UndoIsOnePly(Self, m) =>
                      /\ Occupancy(u.board) = Occupancy(board)
                      /\ m[2] \in get_legal_moves(u.board, u.board_ep, m[1])

\* C5: a successful en-passant capture followed immediately by undo_move
\* puts the capturing pawn back on its origin, leaves the target square
\* empty and puts the captured pawn back on its own square (the capturing
\* pawn's row, the destination's column).
C5_UndoRestoresEnPassant ==
    \A m \in LegalCalls(Self) :
        (~game_over /\ IsEnPassant(Self, m) /\ UndoIsOnePly(Self, m)) =>
            LET u == MoveThenUndo(Self, m, "queen") IN
            /\ Occupancy(u.board) = Occupancy(board)
            /\ u.board[m[1]].type = "pawn" /\ u.board[m[1]].color = current_turn
            /\ u.board[m[2]] = None
            /\ u.board[<<m[1][1], m[2][2]>>].type = "pawn"
            /\ u.board[<<m[1][1], m[2][2]>>].color = Opponent(current_turn)

\* C6: a successful promotion followed immediately by undo_move leaves a
\* pawn of the mover's colour (not the promoted piece) on the origin square
\* and on the destination what it held before.
C6_UndoRestoresPromotion ==
    \A m \in LegalCalls(Self) :
        (~game_over /\ IsPromotion(Self, m) /\ UndoIsOnePly(Self, m)) =>
            \A p \in PromotionInputs :
                LET u == MoveThenUndo(Self, m, p) IN
                /\ Occupancy(u.board) = Occupancy(board)
                /\ u.board[m[1]].type = "pawn" /\ u.board[m[1]].color = current_turn

\* an enemy piece attacks a square: a pawn the two squares diagonally in
\* front of it, occupied or not; any other piece the squares it could move to
Attacks(b, piece, target) ==
    IF piece.type = "pawn"
    THEN /\ target[1] = piece.position[1] + (IF piece.color = "white" THEN -1 ELSE 1)
         /\ Abs(target[2] - piece.position[2]) = 1
    ELSE IF piece.type = "king"
         THEN target \in StepMoves(b, piece, QueenDirections)
         ELSE target \in get_possible_moves(b, NoSquare, piece)

AttackedBy(b, target, by_color) ==
    \E sq \in Squares : b[sq] # None /\ b[sq].color = by_color /\ Attacks(b, b[sq], target)

\* C8: a castling destination is among the king's legal moves only when king
\* and rook are unmoved, the squares between them are empty, and the king's
\* start, transit and landing squares are not attacked by an enemy piece.
C8_CastlingOnlyWhenAllowed ==
    \A m \in LegalCalls(Self) :
        IsCastling(Self, m) =>
            LET row == m[1][1]
                kingside == m[2][2] > m[1][2]
                corner == <<row, IF kingside THEN 7 ELSE 0>>
                between == IF kingside THEN {5, 6} ELSE {1, 2, 3}
                step == IF kingside THEN 1 ELSE -1
            IN  /\ ~board[m[1]].has_moved
                /\ board[corner].type = "rook" /\ ~board[corner].has_moved
                /\ \A col \in between : board[<<row, col>>] = None
                /\ \A k \in 0 .. 2 :
                     ~AttackedBy(board, <<row, m[1][2] + k * step>>, Opponent(current_turn))

\* the calls tried on every state: squares off the grid, empty squares,
\* squares of either colour, with the destinations among the same squares
ProbeSquares ==
    { <<-1, 0>>, <<8, 3>>, <<3, 8>>, Sq(5, 4), Sq(4, 8), Sq(5, 7), Sq(5, 6),
      Sq(6, 2), Sq(7, 2), Sq(7, 4), Sq(7, 5), Sq(8, 4) }

ProbeCalls == ProbeSquares \X ProbeSquares

\* the piece at from is of the side to move and to is a legal destination
MoveIsAcceptable(g, from_pos, to_pos) ==
    /\ ~g.game_over
    /\ get_piece(g.board, from_pos[1], from_pos[2]) # None
    /\ get_piece(g.board, from_pos[1], from_pos[2]).color = g.current_turn
    /\ to_pos \in get_legal_moves(g.board, g.board_ep, from_pos)

C9_TerminalStatesAbsorbing ==
    game_over =>
        \A g \in { make_move(Self, c[1], c[2], "queen", now).game : c \in ProbeCalls }
                 \cup { make_ai_move(Self, c, now).game : c \in ProbeCalls \cup {NoMove} }
                 \cup { resign(Self, color, now).game : color \in Colors }
                 \cup { timeout(Self, color, now).game : color \in Colors } :
            /\ g.game_over
            /\ g.winner = winner
            /\ g.status_message = status_message

\* C10: after a successful make_move, if the opponent of the mover is in
\* check and has no legal move the game is over, the mover is the winner and
\* the status message announces checkmate; if the opponent has no legal move
\* and is not in check the game is over as a stalemate with no winner.
C10_MateAndStalemateEndTheGame ==
    \A m \in LegalCalls(Self) :
        ~game_over =>
            LET r == make_move(Self, m[1], m[2], "queen", now)
                in_check == is_in_check(r.game.board, r.game.board_ep, Opponent(current_turn))
                no_move == \A sq \in Squares :
                              r.game.board[sq].color = Opponent(current_turn) =>
                                  get_legal_moves(r.game.board, r.game.board_ep, sq) = {}
            IN  /\ r.result.success
                /\ (no_move /\ in_check) =>
                      /\ r.game.game_over /\ r.result.game_over
                      /\ r.game.winner = current_turn /\ r.result.winner = current_turn
                      /\ r.game.status_message = "Checkmate! " \o Capitalize(current_turn) \o " wins!"
                      /\ r.result.message = r.game.status_message
                /\ (no_move /\ ~in_check) =>
                      /\ r.game.game_over /\ r.result.game_over
                      /\ r.game.winner = NoColor /\ r.result.winner = NoColor
                      /\ r.game.status_message = "Stalemate! Game is a draw."

\* White has just mated, from a position that also held a stalemating move
C10_Witness ==
    /\ game_over /\ winner = "white" /\ status_message = "Checkmate! White wins!"
    /\ move_history # <<>>
    /\ is_in_check(board, board_ep, "black")
    /\ LegalCalls(Self) = {}
    /\ \E m \in LegalCalls(undo_move(Self).game) :
         LET r == make_move(undo_move(Self).game, m[1], m[2], "queen", now) IN
         /\ r.game.game_over /\ r.game.winner = NoColor
         /\ r.game.status_message = "Stalemate! Game is a draw."
         /\ ~is_in_check(r.game.board, r.game.board_ep, "black")
         /\ LegalCalls(r.game) = {}

\* the terminal conditions that hold in the position a move has left, in the
\* order of their priority: <<holds, message, winner>>
TerminalConditions(g2) ==
    LET in_check == is_in_check(g2.board, g2.board_ep, g2.current_turn)
        no_move == LegalCalls(g2) = {}
        mated_by == Opponent(g2.current_turn)
    IN  << <<in_check /\ no_move,
             "Checkmate! " \o Capitalize(mated_by) \o " wins!", mated_by>>,
           <<~in_check /\ no_move, "Stalemate! Game is a draw.", NoColor>>,
           <<g2.halfmove_clock >= 50, "Draw by fifty-move rule!", NoColor>>,
           <<Count(g2.position_history,
                   g2.position_history[Len(g2.position_history)]) >= 3,
             "Draw by threefold repetition!", NoColor>>,
           <<_is_insufficient_material(g2.board),
             "Draw by insufficient material!", NoColor>> >>

\* the move's outcome is the first of the conditions that holds, and the game
\* goes on when none does
FirstConditionWins(g2, conds) ==
    LET holding == { i \in 1 .. Len(conds) : conds[i][1] }
    IN  IF holding = {} THEN ~g2.game_over
        ELSE LET first == CHOOSE i \in holding : \A j \in holding : i <= j
             IN  /\ g2.game_over
                 /\ g2.status_message = conds[first][2]
                 /\ g2.winner = conds[first][3]

QuietPly(record) ==
    /\ record.piece.type # "pawn"
    /\ record.promotion = NoValue
    /\ record.captured = None

\* the number of quiet plies at the end of the history
RECURSIVE QuietRun(_)
QuietRun(history) ==
    IF history = <<>> \/ ~QuietPly(history[Len(history)]) THEN 0
    ELSE 1 + QuietRun(SubSeq(history, 1, Len(history) - 1))

\* C12: the fifty-move draw is never declared while the moves in the history
\* hold fewer than fifty consecutive plies without a pawn move or a capture
C12_FiftyMoveDrawNeedsFiftyPlies ==
    (game_over /\ status_message = "Draw by fifty-move rule!") =>
        QuietRun(move_history) >= 50

\* the occupancy before a recorded ply that was neither castling, en passant
\* nor promotion
Rewind(occupancy, record) ==
    [sq \in Squares |->
        IF sq = record.from THEN <<record.piece.type, record.piece.color>>
        ELSE IF sq = record.to THEN <<record.captured.type, record.captured.color>>
        ELSE occupancy[sq]]

\* the repetition keys of the positions the recorded plies have left: the
\* occupancy of the board and the side that moved into it
RECURSIVE KeysPlayed(_, _)
KeysPlayed(occupancy, history) ==
    IF history = <<>> THEN <<>>
    ELSE LET record == history[Len(history)]
         IN  Append(KeysPlayed(Rewind(occupancy, record),
                               SubSeq(history, 1, Len(history) - 1)),
                    <<occupancy, record.piece.color>>)

\* how often the position of the game has occurred among them
Occurrences(g) ==
    LET keys == KeysPlayed(Occupancy(g.board), g.move_history)
    IN  Count(keys, keys[Len(keys)])

\* C13: after a successful make_move that is neither checkmate, stalemate nor
\* a fifty-move draw, the game is a draw by repetition exactly when the
\* position it left (the occupancy of the whole board and the side to move)
\* has occurred at least three times among the positions of the recorded moves
C13_RepetitionCountsPositions ==
    ~game_over =>
        \A m \in LegalCalls(Self) :
            LET g2 == make_move(Self, m[1], m[2], "queen", now).game
            IN  (g2.status_message \notin { "Checkmate! White wins!", "Checkmate! Black wins!",
                                            "Stalemate! Game is a draw.",
                                            "Draw by fifty-move rule!" }) =>
                    ((g2.game_over /\ g2.status_message = "Draw by threefold repetition!")
                        <=> Occurrences(g2) >= 3)

\* the squares of the pieces that are not kings
OtherPieces(b) == { sq \in Squares : b[sq] # None /\ b[sq].type # "king" }

\* the colour of a square
SquareColor(sq) == (sq[1] + sq[2]) % 2

\* material with which neither side can mate: the bare kings, one minor piece,
\* or a bishop each on squares of one colour
DeadMaterial(b) ==
    \/ OtherPieces(b) = {}
    \/ /\ Cardinality(OtherPieces(b)) = 1
       /\ \A sq \in OtherPieces(b) : b[sq].type \in {"bishop", "knight"}
    \/ /\ Cardinality(OtherPieces(b)) = 2
       /\ \A sq \in OtherPieces(b) : b[sq].type = "bishop"
       /\ \E s1, s2 \in OtherPieces(b) :
            /\ b[s1].color = "white" /\ b[s2].color = "black"
            /\ SquareColor(s1) = SquareColor(s2)

\* C14: the insufficient-material test is true exactly when, besides the
\* kings, the board holds no piece, or one piece that is a bishop or a knight,
\* or two bishops, one of each colour, on squares of the same colour; it is
\* false for every other material, two bishops of one side included
C14_InsufficientMaterialTest ==
    _is_insufficient_material(board) <=> DeadMaterial(board)

\* a king and a lone bishop against a bare king
LoneBishop(b) ==
    /\ Cardinality(OtherPieces(b)) = 1
    /\ \A sq \in OtherPieces(b) : b[sq].type = "bishop"

\* C15: a game reconstructed from a snapshot whose board holds only a king and
\* a lone bishop against a bare king is terminal with no winner before any
\* make_move call
C15_LoneBishopSnapshotIsDrawn ==
    LoneBishop(board) =>
        LET g == Game_from_dict(Game_to_dict(Self))
        IN  g.game_over /\ g.winner = NoColor

\* the colour that makes the i-th ply of a game
MoverOfPly(i) == IF i % 2 = 1 THEN "white" ELSE "black"

\* C16: the turn strictly alternates. A successful make_move passes the turn
\* to the other colour; failed calls, resign and timeout leave it alone; in
\* every state reached from a new game the side to move is white exactly when
\* the history has even length, and the movers recorded in it alternate
\* white, black, white, ...
C16_TurnAlternates ==
    /\ current_turn = MoverOfPly(Len(move_history) + 1)
    /\ \A i \in 1 .. Len(move_history) : move_history[i].piece.color = MoverOfPly(i)
    /\ \A c \in ProbeCalls \cup TerminalInputs :
         LET r == make_move(Self, c[1], c[2], "queen", now)
         IN  r.game.current_turn =
                IF r.result.success THEN Opponent(current_turn) ELSE current_turn
    /\ ~undo_move(Self).result.success => undo_move(Self).game.current_turn = current_turn
    /\ \A color \in Colors :
         /\ resign(Self, color, now).game.current_turn = current_turn
         /\ timeout(Self, color, now).game.current_turn = current_turn

\* three plies played, Black to move, and the game ended by a timeout
C16_Witness ==
    /\ Len(move_history) = 3
    /\ current_turn = "black"
    /\ game_over
    /\ status_message = "Time out! White wins!"
    /\ \E c \in TerminalInputs : ~make_move(Self, c[1], c[2], "queen", now).result.success

\* the colour that made the last recorded move
LastMover(g) == g.move_history[Len(g.move_history)].piece.color

\* the number of plies undo_move takes off the history
PliesUnwound(g) == Len(g.move_history) - Len(undo_move(g).game.move_history)

C18_UndoOnEmptyHistory ==
    move_history = <<>> =>
        /\ undo_move(Self).result.success = FALSE
        /\ undo_move(Self).result.message = "No moves to undo"
        /\ undo_move(Self).game = Self

\* a game that ended by resignation before any move was made
C18_Witness ==
    /\ move_history = <<>>
    /\ game_over
    /\ winner = "black"
    /\ status_message = "White resigned. Black wins!"

\* what resign and timeout leave alone
SamePosition(g1, g2) ==
    /\ g1.board = g2.board
    /\ g1.board_ep = g2.board_ep
    /\ g1.current_turn = g2.current_turn
    /\ g1.move_history = g2.move_history
    /\ g1.captured_pieces = g2.captured_pieces
    /\ g1.halfmove_clock = g2.halfmove_clock
    /\ g1.position_history = g2.position_history
    /\ g1.en_passant_target = g2.en_passant_target

\* C19: resign(color) and timeout(color) always succeed and make the game
\* terminal with the opposite colour as winner, whoever is to move, and leave
\* the board, the side to move, the history, the captured lists and the
\* clocks unchanged
C19_ResignAndTimeout ==
    \A color \in Colors :
        /\ LET r == resign(Self, color, now)
           IN  /\ r.result.success /\ r.result.winner = Opponent(color)
               /\ r.game.game_over /\ r.game.winner = Opponent(color)
               /\ SamePosition(r.game, Self)
        /\ LET r == timeout(Self, color, now)
           IN  /\ r.result.success /\ r.result.winner = Opponent(color)
               /\ r.game.game_over /\ r.game.winner = Opponent(color)
               /\ SamePosition(r.game, Self)

\* Black has resigned with White to move, two plies into the game
C19_Witness ==
    /\ game_over
    /\ winner = "white"
    /\ status_message = "Black resigned. White wins!"
    /\ current_turn = "white"
    /\ Len(move_history) = 2

\* C20: when the automated colour is to move in a game that is not over and
\* exactly one legal <<from, to>> exists, make_ai_move applies exactly that
\* move and reports it as the move chosen, whatever the random tie-break
C20_OnlyMoveIsPlayed ==
    (ai_enabled /\ ~game_over /\ current_turn = ai_color
        /\ Cardinality(LegalCalls(Self)) = 1) =>
        \A only \in LegalCalls(Self), ai_move \in choose_ai_move(Self) :
            LET r == make_ai_move(Self, ai_move, now)
            IN  /\ r.result.success
                /\ "ai_move" \in DOMAIN r.result
                /\ r.result.ai_move = [from |-> only[1], to |-> only[2]]
                /\ r.game = make_move(Self, only[1], only[2], "queen", now).game
                /\ Len(r.game.move_history) = Len(move_history) + 1

\* the queen has given check from f6 and the black king, moved by the
\* automated player, has one square to go to
C20_Witness ==
    /\ ai_enabled /\ ~game_over /\ current_turn = ai_color
    /\ Cardinality(LegalCalls(Self)) = 1
    /\ status_message = "Black is in check!"
    /\ LegalCalls(Self) = { <<Sq(8, 8), Sq(8, 7)>> }
    /\ make_ai_move(Self, <<Sq(8, 8), Sq(8, 7)>>, now).game.status_message = "White's turn"

\* C21: make_ai_move returns 'no move' and leaves the game unchanged when
\* automated play is disabled, the game is terminal, or it is not the
\* automated colour's turn; whenever it applies a move, the result is a
\* success and the piece moved is of the automated colour
C21_AIMoveOnlyInTurn ==
    \A ai_move \in choose_ai_move(Self) \cup {NoMove} :
        LET r == make_ai_move(Self, ai_move, now)
        IN  /\ (~ai_enabled \/ game_over \/ current_turn # ai_color) =>
                  (r.result = NoResult /\ r.game = Self)
            /\ r.game # Self =>
                  /\ r.result.success
                  /\ Len(r.game.move_history) = Len(move_history) + 1
                  /\ LastMover(r.game) = ai_color
                  /\ board[ai_move[1]].color = ai_color

\* the automated colour is to move and one of its moves ends the game, after
\* which make_ai_move has no move; and switched off it would have none now
C21_Witness ==
    /\ ai_enabled /\ ~game_over /\ current_turn = ai_color
    /\ \E ai_move \in choose_ai_move(Self) :
          LET r == make_ai_move(Self, ai_move, now)
          IN  /\ r.result.success /\ r.game.game_over
              /\ make_ai_move(r.game, NoMove, now).result = NoResult

\* every piece knows the square it stands on
PiecesKnowTheirSquares(b) ==
    \A sq \in Squares : b[sq] # None => b[sq].position = sq

\* C22: move search never mutates the live game: after choose_ai_move returns,
\* the board (occupancy, the pieces' squares and moved flags), en-passant
\* target, side to move, histories, clocks and terminal fields of the live
\* game are what they were before the call
C22_SearchLeavesGameAlone ==
    choose_ai_move_run(Self) = Self

\* the automated colour is to move and the search has moves of its king to
\* try on the live board and take back, some of them into check
C22_Witness ==
    /\ ~game_over /\ current_turn = ai_color
    /\ \E sq \in Squares :
         /\ board[sq] # None /\ board[sq].color = ai_color
         /\ get_legal_moves(board, board_ep, sq) # {}
         /\ get_legal_moves(board, board_ep, sq) # get_possible_moves(board, board_ep, board[sq])
    /\ choose_ai_move(Self) # {NoMove}
    /\ PiecesKnowTheirSquares(board)

\* what datetime.now may read when the same call is made in a second game:
\* the same instant or a later one
Instants == { now, now + 1 }

\* C23: the core is deterministic under make_move: two fresh games given the
\* same sequence of make_move calls end in identical states, compared field
\* by field on the serialized state, the notation of every recorded move
\* included
C23_MakeMoveIsDeterministic ==
    \A c \in TerminalInputs, t \in Instants :
        Game_to_dict(make_move(Self, c[1], c[2], "queen", t).game)
            = Game_to_dict(make_move(Self, c[1], c[2], "queen", now).game)

\* request.get_json on a stored snapshot: JSON has no tuples, so the squares
\* of the move records come back as lists
get_json(data) ==
    [data EXCEPT !.move_history =
        [i \in 1 .. Len(data.move_history) |->
            [data.move_history[i] EXCEPT !.listed = TRUE]]]

\* the game loaded from the stored snapshot of a game
Reloaded(g) == Game_from_dict(get_json(Game_to_dict(g)))

\* the squares, pieces, notation and promotion of the recorded moves
Plies(history) ==
    [i \in 1 .. Len(history) |->
        <<history[i].from, history[i].to, history[i].piece, history[i].captured,
          history[i].notation, history[i].promotion>>]

\* what the round trip is to preserve: grid occupancy with the moved flags, the
\* en-passant target, the side to move, the histories, the captured lists,
\* the clocks and the terminal fields
SameGame(g, h) ==
    /\ g.board = h.board
    /\ g.board_ep = h.board_ep /\ g.en_passant_target = h.en_passant_target
    /\ g.current_turn = h.current_turn
    /\ Plies(g.move_history) = Plies(h.move_history)
    /\ g.position_history = h.position_history
    /\ g.captured_pieces = h.captured_pieces
    /\ g.halfmove_clock = h.halfmove_clock
    /\ g.game_over = h.game_over /\ g.winner = h.winner
    /\ g.status_message = h.status_message /\ g.finished_at = h.finished_at

\* C24: serializing a game and reconstructing it is a round trip: the
\* reconstructed game has the same grid, moved flags, en-passant target, side
\* to move, histories, captured lists, clocks and terminal fields, and every
\* later make_move or undo_move gives the same result and the same state on
\* it as on the original
C24_RoundTrip ==
    /\ SameGame(Reloaded(Self), Self)
    /\ undo_move(Reloaded(Self)).result = undo_move(Self).result
    /\ SameGame(undo_move(Reloaded(Self)).game, undo_move(Self).game)
    /\ \A c \in ShuffleInputs :
          /\ make_move(Reloaded(Self), c[1], c[2], "queen", now).result
                = make_move(Self, c[1], c[2], "queen", now).result
          /\ SameGame(make_move(Reloaded(Self), c[1], c[2], "queen", now).game,
                      make_move(Self, c[1], c[2], "queen", now).game)

\* C25: after every successful make_move the halfmove clock is 0 when the
\* piece that moved was a pawn (a promoting pawn included) or the move
\* captured, and the previous clock plus one otherwise; the first move
\* (6,4) -> (4,4) of a new game succeeds and leaves the clock at 0
C25_ClockAfterMove ==
    /\ \A c \in MaterialInputs :
          LET r == make_move(Self, c[1][1], c[1][2], c[2], now)
          IN  r.result.success =>
                r.game.halfmove_clock =
                    IF board[c[1][1]].type = "pawn"
                          \/ r.game.move_history[Len(r.game.move_history)].captured # None
                    THEN 0 ELSE halfmove_clock + 1
    /\ LET first == make_move(NewGame, <<6, 4>>, <<4, 4>>, "queen", now)
       IN  first.result.success /\ first.game.halfmove_clock = 0

\* the promotion choices a caller may send: the four types, in other letter
\* cases, a type that is no promotion, and none at all
PromotionChoices ==
    { "queen", "rook", "bishop", "knight", "Queen", "KNIGHT", "king", NoValue }

\* the type a choice asks for
Requested(choice) ==
    CASE choice \in { "rook", "bishop" } -> choice
      [] choice \in { "knight", "KNIGHT" } -> "knight"
      [] OTHER -> "queen"

\* C26: when a pawn reaches the farthest rank, make_move replaces it with a
\* piece of the mover's colour and of the requested type, a queen when the
\* choice is unrecognized or absent, and does not raise; after a successful
\* make_move no pawn stands on row 0 or row 7
C26_Promotion ==
    \A c \in MaterialInputs, choice \in PromotionChoices :
        LET r == make_move(Self, c[1][1], c[1][2], choice, now)
            pawn == board[c[1][1]].type = "pawn" /\ c[1][2][1] \in {0, 7}
        IN  /\ "raised" \notin DOMAIN r.result
            /\ "raised" \notin DOMAIN r.result /\ r.result.success =>
                  /\ pawn => /\ r.game.board[c[1][2]].type = Requested(choice)
                             /\ r.game.board[c[1][2]].color = current_turn
                  /\ \A sq \in Squares :
                        sq[1] \in {0, 7} => r.game.board[sq].type # "pawn"

\* the plies that undo_move took back, made again at instant t
Redo(g, t) ==
    LET u == undo_move(g).game
        n == Len(u.move_history)
        first == make_move(u, g.move_history[n + 1].from, g.move_history[n + 1].to,
                           "queen", t).game
    IN  IF Len(g.move_history) = n + 1 THEN first
        ELSE make_move(first, g.move_history[n + 2].from, g.move_history[n + 2].to,
                       "queen", t).game

\* C27: the finish marker is set once: it is set when the game first becomes
\* terminal, a later terminal-setting operation on a terminal game does not
\* overwrite it, and an undo followed by a redo that produces the same
\* terminal state leaves the game with the finish marker it had before the
\* undo
C27_FinishMarkerSetOnce ==
    game_over =>
        /\ finished_at # NoStamp
        /\ \A color \in Colors, t \in Instants :
              /\ resign(Self, color, t).game.finished_at = finished_at
              /\ timeout(Self, color, t).game.finished_at = finished_at
        /\ move_history # <<>> =>
              \A t \in Instants :
                  (/\ Redo(Self, t).game_over
                   /\ Redo(Self, t).winner = winner
                   /\ Redo(Self, t).status_message = status_message
                   /\ Redo(Self, t).board = board)
                      => Redo(Self, t).finished_at = finished_at

\* the automated player answers up to this many plies into the game, in
\* positions of at most this many pieces: its search of a full board is out
\* of reach of the exploration
MaxAIPlies == 2
MaxAIPieces == 3

\* a caller's make_ai_move() early in the game
MakeAIReply ==
    /\ Len(move_history) < MaxAIPlies
    /\ halfmove_clock < MaxClock
    /\ Cardinality({ sq \in Squares : board[sq] # None }) <= MaxAIPieces
    /\ \E ai_move \in AIChoices(Self) :
          SetGame(make_ai_move(Self, ai_move, now).game)
    /\ UNCHANGED now

\* a new game, and the saved endgame with its empty histories, under all five
\* operations: make_move, undo_move, resign, timeout and make_ai_move
InitPlay == Init \/ InitEndgame

NextPlay ==
    \/ \E m \in TerminalInputs \cup FiftyInputs : MakeMove(m[1], m[2], "queen")
    \/ UndoMove
    \/ \E color \in Colors : Resign(color)
    \/ \E color \in Colors : Timeout(color)
    \/ MakeAIReply

SpecPlay == InitPlay /\ [][NextPlay]_vars

\* a saved game with king and queen against king, White the automated colour
\* and to move: Qa1-a8 and Qa1-g7 mate, Qa1-f6 stalemates, the black king has
\* up to three replies to the other moves
SearchCells ==
    [sq \in Squares |->
        CASE sq = Sq(7, 6) -> SavedPiece("king", "white", sq)
          [] sq = Sq(1, 1) -> SavedPiece("queen", "white", sq)
          [] sq = Sq(7, 8) -> SavedPiece("king", "black", sq)
          [] OTHER -> None]

SearchSquares ==
    { Sq(1, 1), Sq(1, 2), Sq(1, 4), Sq(1, 6), Sq(1, 8), Sq(2, 1),
      Sq(6, 5), Sq(6, 6), Sq(6, 7), Sq(6, 8),
      Sq(7, 6), Sq(7, 7), Sq(7, 8), Sq(8, 6), Sq(8, 7), Sq(8, 8) }

\* the callers' moves, undo and the automated player's own move
InitSearch ==
    \E enabled \in BOOLEAN :
        StartFrom(Game_from_dict(SavedGame(SearchCells, "white", enabled, "white")))

NextSearch ==
    \/ \E from_pos, to_pos \in SearchSquares : MakeMove(from_pos, to_pos, "queen")
    \/ UndoMove
    \/ MakeAIReply

SpecSearch == InitSearch /\ [][NextSearch]_vars

\* C28: in every state reachable from a new game by make_move, undo_move,
\* resign, timeout and make_ai_move the position history is as long as the
\* move history
C28_HistoriesSameLength == Len(position_history) = Len(move_history)

\* the automated player has answered the first move of the endgame with its
\* king, Black has then resigned or run out of time
C28_Witness ==
    /\ Len(move_history) = 2 /\ Len(position_history) = 2
    /\ move_history[2].piece.type = "king" /\ move_history[2].piece.color = "black"
    /\ ai_enabled /\ game_over /\ winner = "white"

\* a get_legal_moves that answers for a piece of either colour
GetLegalMovesOfEitherColor(g, position) ==
    IF get_piece(g.board, position[1], position[2]) = None THEN {}
    ELSE get_legal_moves(g.board, g.board_ep, position)

\* Game.get_legal_moves(position)
Game_get_legal_moves(g, position) ==
    IF get_piece(g.board, position[1], position[2]) = None
          \/ get_piece(g.board, position[1], position[2]).color # g.current_turn
    THEN {}
    ELSE get_legal_moves(g.board, g.board_ep, position)

\* the positions a caller may name: the squares and two off the board
Positions == Squares \cup { <<-1, 0>>, <<3, 8>> }

\* C29: Game.get_legal_moves(square) is empty when the square holds no piece
\* or a piece that is not of the side to move; in every state that is not
\* terminal make_move(from, to) succeeds exactly when to is in
\* get_legal_moves(from)
C29_MoveSucceedsIffLegal ==
    /\ \A position \in Positions :
          (get_piece(board, position[1], position[2]) = None
              \/ get_piece(board, position[1], position[2]).color # current_turn)
            => Game_get_legal_moves(Self, position) = {}
    /\ ~game_over =>
          \A from_pos, to_pos \in Positions :
              make_move(Self, from_pos, to_pos, "queen", now).result.success
                  <=> to_pos \in Game_get_legal_moves(Self, from_pos)

\* a game under way in which the side to move has a legal move and the side
\* not to move has a piece that could move
C29_Witness ==
    /\ ~game_over /\ move_history # <<>>
    /\ \E from_pos, to_pos \in Squares :
          /\ to_pos \in Game_get_legal_moves(Self, from_pos)
          /\ make_move(Self, from_pos, to_pos, "queen", now).result.success
    /\ \E from_pos \in Squares :
          /\ board[from_pos] # None /\ board[from_pos].color # current_turn
          /\ get_legal_moves(board, board_ep, from_pos) # {}

\* replay.build_replay_states: the states of a fresh game, before the first
\* recorded move and after each
RECURSIVE ReplayLoop(_, _, _)
ReplayLoop(g, moves, states) ==
    IF moves = <<>> THEN states
    ELSE LET move == Head(moves)
             promotion == IF move.promotion = NoValue THEN "queen" ELSE move.promotion
             next == make_move(g, move.from, move.to, promotion, now).game
         IN  ReplayLoop(next, Tail(moves), Append(states, next))

build_replay_states(history) == ReplayLoop(NewGame, history, <<NewGame>>)

\* C30: for every game reached from a new game by make_move and undo_move,
\* replaying its recorded move history through make_move on a fresh game
\* reconstructs the same board, side to move and terminal status, and the
\* i-th replay state is the state after the first i recorded moves
C30_ReplayReconstructs ==
    LET states == build_replay_states(move_history)
        last == states[Len(states)]
    IN  /\ Occupancy(last.board) = Occupancy(board)
        /\ last.current_turn = current_turn
        /\ last.game_over = game_over /\ last.winner = winner
        /\ \A i \in 0 .. Len(move_history) :
              Plies(states[i + 1].move_history) = Plies(SubSeq(move_history, 1, i))

\* C31: after every successful make_move(from, to) the square to holds a
\* piece of the mover's colour, the piece that stood on from or its
\* promotion, and the square from is empty: the moved piece never disappears
\* from the board
C31_MovedPieceArrives ==
    \A m \in LegalCalls(Self) :
        LET r == make_move(Self, m[1], m[2], "queen", now) IN
        r.result.success =>
            /\ r.game.board[m[2]] # None
            /\ r.game.board[m[2]].color = current_turn
            /\ r.game.board[m[2]].type =
                  IF IsPromotion(Self, m) THEN "queen" ELSE board[m[1]].type
            /\ r.game.board[m[1]] = None

\* the last recorded move is the two-square advance of a pawn to sq
JustAdvancedTwo(history, sq) ==
    /\ history # <<>>
    /\ history[Len(history)].piece.type = "pawn"
    /\ history[Len(history)].to = sq
    /\ Abs(history[Len(history)].to[1] - history[Len(history)].from[1]) = 2

\* C32: when a pawn moves onto the en-passant target square, make_move
\* removes the enemy pawn one rank behind the target, the pawn that made the
\* immediately preceding two-square advance, instead of a piece on the
\* destination square, records that pawn in the mover's capture list and
\* reports captured = true
C32_EnPassantCapture ==
    \A m \in LegalCalls(Self) :
        (board[m[1]].type = "pawn" /\ m[2] = en_passant_target) =>
            LET r == make_move(Self, m[1], m[2], "queen", now)
                behind == <<m[1][1], m[2][2]>>
            IN  r.result.success =>
                  /\ board[behind].type = "pawn"
                  /\ board[behind].color = Opponent(current_turn)
                  /\ JustAdvancedTwo(move_history, behind)
                  /\ r.game.board[behind] = None
                  /\ r.game.captured_pieces[current_turn]
                        = Append(captured_pieces[current_turn], board[behind])
                  /\ r.result.captured

\* C33: after every successful make_move the en-passant target is set exactly
\* when the move was a two-square pawn advance, and is then the square the
\* pawn passed over; after every other move it is empty; the game's and the
\* board's copy of the target are always equal
C33_EnPassantTarget ==
    /\ board_ep = en_passant_target
    /\ \A m \in MoveInputs :
          LET r == make_move(Self, m[1], m[2], "queen", now) IN
          r.result.success =>
              /\ r.game.board_ep = r.game.en_passant_target
              /\ r.game.en_passant_target =
                    IF board[m[1]].type = "pawn" /\ Abs(m[2][1] - m[1][1]) = 2
                    THEN << (m[1][1] + m[2][1]) \div 2, m[2][2] >>
                    ELSE NoSquare
    \* every legal move, as lines 70-122 leave the two copies
    /\ ~game_over =>
          \A m \in LegalCalls(Self) :
              /\ BoardAfter(Self, m).board_ep = BoardAfter(Self, m).en_passant_target
              /\ BoardAfter(Self, m).en_passant_target =
                    IF board[m[1]].type = "pawn" /\ Abs(m[2][1] - m[1][1]) = 2
                    THEN << (m[1][1] + m[2][1]) \div 2, m[2][2] >>
                    ELSE NoSquare

\* a pawn has just advanced two squares and the target is the square it
\* passed over; the side to move has a move that clears it and a two-square
\* advance of its own
C33_Witness ==
    /\ move_history # <<>> /\ ~game_over
    /\ en_passant_target # NoSquare
    /\ JustAdvancedTwo(move_history, << 2 * en_passant_target[1]
                                          - move_history[Len(move_history)].from[1],
                                        en_passant_target[2] >>)
    /\ \E m \in LegalCalls(Self) :
          make_move(Self, m[1], m[2], "queen", now).game.en_passant_target = NoSquare
    /\ \E m \in LegalCalls(Self) :
          /\ board[m[1]].type = "pawn" /\ Abs(m[2][1] - m[1][1]) = 2
          /\ make_move(Self, m[1], m[2], "queen", now).game.en_passant_target
                = << (m[1][1] + m[2][1]) \div 2, m[2][2] >>

\* C34: computing legal moves leaves the board unchanged: after
\* Board.get_legal_moves returns, for any square, every grid cell holds the
\* same piece as before with the same moved flag, every piece's stored square
\* is its grid location, and the en-passant target, which the call never
\* assigns, is the same, whether or not candidates were rejected
C34_LegalMovesLeaveBoard ==
    \A position \in Squares :
        LET after == get_legal_moves_run(board, board_ep, position).board
        IN  after = board /\ PiecesKnowTheirSquares(after)

\* a piece with a candidate that is rejected, a candidate that is kept and a
\* candidate that is a capture
C34_Witness ==
    \E position \in Squares :
        /\ board[position] # None
        /\ get_legal_moves(board, board_ep, position) # {}
        /\ \E move \in get_possible_moves(board, board_ep, board[position]) :
              move \notin get_legal_moves(board, board_ep, position)
        /\ \E move \in get_possible_moves(board, board_ep, board[position]) :
              board[move] # None

\* a saved game, Black to move: White Kh4 and pawn h5, Black Kf6, rook a3,
\* pawn f5 and an unmoved pawn g7, whose advance to g5 gives check
PassantCells ==
    [sq \in Squares |->
        CASE sq = Sq(8, 4) -> SavedPiece("king", "white", sq)
          [] sq = Sq(8, 5) -> SavedPiece("pawn", "white", sq)
          [] sq = Sq(6, 6) -> SavedPiece("king", "black", sq)
          [] sq = Sq(1, 3) -> SavedPiece("rook", "black", sq)
          [] sq = Sq(6, 5) -> SavedPiece("pawn", "black", sq)
          [] sq = Sq(7, 7) -> [SavedPiece("pawn", "black", sq) EXCEPT !.has_moved = FALSE]
          [] OTHER -> None]

PassantInputs ==
    { <<Sq(7, 7), Sq(7, 5)>>,     \* g7-g5
      <<Sq(7, 7), Sq(7, 6)>>,     \* g7-g6
      <<Sq(1, 3), Sq(2, 3)>>,     \* Ra3-b3
      <<Sq(2, 3), Sq(1, 3)>>,     \* Rb3-a3
      <<Sq(6, 6), Sq(5, 6)>>,     \* Kf6-e6
      <<Sq(5, 6), Sq(6, 6)>>,     \* Ke6-f6
      <<Sq(8, 5), Sq(8, 6)>>,     \* h5-h6
      <<Sq(8, 5), Sq(7, 6)>>,     \* h5xg6
      <<Sq(8, 4), Sq(7, 5)>>,     \* Kh4xg5
      <<Sq(8, 4), Sq(7, 4)>> }    \* Kh4-g4

InitPassant ==
    \E enabled \in BOOLEAN :
        StartFrom(Game_from_dict(SavedGame(PassantCells, "black", enabled, "black")))

NextPassant ==
    \/ \E m \in PassantInputs : MakeMove(m[1], m[2], "queen")
    \/ UndoMove

SpecPassant == InitPassant /\ [][NextPassant]_vars

\* the non-castling candidates of the side to move after which, the move made
\* as make_move makes it, no enemy piece attacks the mover's king
SafeCandidates(g) ==
    UNION { { <<sq, move>> : move \in
                { c \in get_possible_moves(g.board, g.board_ep, g.board[sq]) :
                    /\ ~IsCastling(g, <<sq, c>>)
                    /\ ~AttackedBy(BoardAfter(g, <<sq, c>>).board,
                                   find_king(BoardAfter(g, <<sq, c>>).board, g.current_turn),
                                   Opponent(g.current_turn)) } } :
            sq \in { s \in Squares : g.board[s] # None
                                       /\ g.board[s].color = g.current_turn } }

\* C35: a legal move is a pseudo-legal move that does not leave the mover's
\* own king in check: every non-castling pseudo-legal move after which the
\* mover's king is not attacked is returned by get_legal_moves, an en-passant
\* capture of the pawn that gives check included, so that checkmate or
\* stalemate is never declared while such a move exists
C35_SafeMovesAreLegal ==
    /\ \A m \in SafeCandidates(Self) :
          m[2] \in get_legal_moves(board, board_ep, m[1])
    /\ (game_over /\ status_message \in { "Checkmate! White wins!",
                                          "Checkmate! Black wins!",
                                          "Stalemate! Game is a draw." })
          => SafeCandidates(Self) = {}

----------------------------------------------------------------------------
(* Search *)

\* the search is compared up to this depth, in the positions up to this many
\* plies into the game and on the halfmove clock
MaxDepth == 2
MaxSearchPlies == 1

Greatest(S) == CHOOSE v \in S : \A w \in S : v >= w
Least(S) == CHOOSE v \in S : \A w \in S : v <= w

\* minimax over the same tree with no window and no cut-off: the greatest,
\* or the least, of the values of all the positions one move away
RECURSIVE PlainMinimax(_, _, _, _)
PlainValue(simulated, depth, maximizing, ai_color_) ==
    IF simulated.ok THEN {PlainMinimax(simulated.game, depth, maximizing, ai_color_)}
    ELSE {}

PlainValues(snapshot, moves, depth, maximizing, ai_color_) ==
    UNION { PlainValue(_simulate_move(snapshot, m), depth - 1, ~maximizing, ai_color_) :
              m \in moves }

PlainMinimax(g, depth, maximizing, ai_color_) ==
    IF g.game_over \/ depth = 0 \/ _collect_legal_moves(g, g.current_turn) = {}
    THEN evaluate_terminal(g, ai_color_)
    ELSE IF maximizing
         THEN Greatest(PlainValues(Game_to_dict(g), _collect_legal_moves(g, g.current_turn),
                                   depth, TRUE, ai_color_) \cup {-inf})
         ELSE Least(PlainValues(Game_to_dict(g), _collect_legal_moves(g, g.current_turn),
                                depth, FALSE, ai_color_) \cup {inf})

\* the plain value of the position after move m at a root that maximizes
\* or minimizes: the position is searched one ply deep for the other player
PlainChild(g, m, maximizing) ==
    Greatest(PlainValue(_simulate_move(Game_to_dict(g), m), 1, ~maximizing, g.ai_color)
                 \cup {-inf})

\* the plain score of a root candidate, searched as choose_ai_move searches it
PlainScore(g, m) == PlainChild(g, m, TRUE)

BestOf(moves, score) == { m \in moves : \A n \in moves : score[m] >= score[n] }

\* the root candidates with the best plain score
PlainBest(g) ==
    BestOf(_collect_legal_moves(g, g.ai_color),
           [m \in _collect_legal_moves(g, g.ai_color) |-> PlainScore(g, m)])

\* C36: at every depth up to MaxDepth, maximizing where the automated colour
\* is to move and minimizing where its opponent is, minimax with alpha-beta
\* pruning called with the full window returns the value of plain minimax
\* over the same tree, and the root candidates choose_ai_move may draw are the
\* ones with the best plain score
C36_PruningKeepsValue ==
    (/\ ai_enabled
     /\ Len(move_history) <= MaxSearchPlies /\ halfmove_clock <= MaxSearchPlies) =>
        /\ \A depth \in 0 .. MaxDepth :
              minimax(Self, depth, current_turn = ai_color, ai_color, -inf, inf)
                  = PlainMinimax(Self, depth, current_turn = ai_color, ai_color)
        /\ (~game_over /\ current_turn = ai_color /\ LegalCalls(Self) # {})
              => choose_ai_move(Self) = PlainBest(Self)

\* m comes before n in the list _collect_legal_moves builds
Precedes(m, n) ==
    \/ m[1][1] < n[1][1]
    \/ m[1][1] = n[1][1] /\ m[1][2] < n[1][2]
    \/ m[1] = n[1] /\ m[2][1] < n[2][1]
    \/ m[1] = n[1] /\ m[2][1] = n[2][1] /\ m[2][2] < n[2][2]

\* the bound with which the loop of a root searches m: as alpha the greatest,
\* as beta the least value of the moves before it
BoundAt(g, moves, m, maximizing) ==
    IF maximizing
    THEN Greatest({ PlainChild(g, n, TRUE) : n \in { k \in moves : Precedes(k, m) } }
                      \cup {-inf})
    ELSE Least({ PlainChild(g, n, FALSE) : n \in { k \in moves : Precedes(k, m) } }
                   \cup {inf})

CutOff(simulated, maximizing, bound) ==
    IF maximizing
    THEN minimax(simulated.game, 1, FALSE, ai_color, bound, inf)
            # PlainMinimax(simulated.game, 1, FALSE, ai_color)
    ELSE minimax(simulated.game, 1, TRUE, ai_color, -inf, bound)
            # PlainMinimax(simulated.game, 1, TRUE, ai_color)

\* a search of depth 2 is cut off: the search of one of the moves, made with
\* the best value of the moves before it as its bound, returns another value
\* than the plain search of that move
C36_Witness ==
    /\ ai_enabled
    /\ Len(move_history) <= MaxSearchPlies /\ halfmove_clock <= MaxSearchPlies
    /\ ~game_over
    /\ \E m \in LegalCalls(Self) :
          CutOff(_simulate_move(Game_to_dict(Self), m), current_turn = ai_color,
                 BoundAt(Self, LegalCalls(Self), m, current_turn = ai_color))

----------------------------------------------------------------------------
(* Undo of a finished game *)

\* the game after undo_move is open, with the status message of the side to
\* move
Reopened(g) ==
    /\ ~g.game_over
    /\ g.winner = NoColor
    /\ g.finished_at = NoStamp
    /\ g.status_message =
          IF is_in_check(g.board, g.board_ep, g.current_turn)
          THEN Capitalize(g.current_turn) \o " is in check!"
          ELSE Capitalize(g.current_turn) \o "'s turn"

\* C37: undo_move clears the terminal flag, the winner and the finish marker
\* whatever terminal state the game was in, resignation and timeout
\* included, and sets the status message to the in-check or turn message of
\* the side to move after the undo
C37_UndoReopensAlways == Reopened(undo_move(Self).game)

\* C37, with a move to undo: undo_move succeeds, clears the terminal flag, the
\* winner and the finish marker whatever ended the game, and sets the status
\* message to the in-check or turn message of the side to move after the undo
C37_UndoReopens ==
    move_history # <<>> =>
        /\ undo_move(Self).result.success
        /\ Reopened(undo_move(Self).game)

\* a game with moves made that White has resigned or lost on time
C37_Witness ==
    /\ move_history # <<>>
    /\ game_over /\ finished_at # NoStamp /\ winner = "black"
    /\ status_message \in { "White resigned. Black wins!", "Time out! Black wins!" }

----------------------------------------------------------------------------
(* Kings and captures *)

Kings(b, color) == { sq \in Squares : b[sq].type = "king" /\ b[sq].color = color }

\* C38: in every state reachable from a new game by make_move and undo_move
\* each colour has exactly one king on the board, and no legal move captures
\* a king
C38_KingsStay ==
    /\ \A color \in Colors : Cardinality(Kings(board, color)) = 1
    /\ \A m \in LegalCalls(Self) : board[m[2]].type # "king"

PiecesOf(b, color) == { sq \in Squares : b[sq] # None /\ b[sq].color = color }

\* C39: after any sequence of make_move and undo_move from a new game, no
\* successful make_move removes a piece of the mover's own colour from the
\* board, and every captured piece recorded in the move history or held in a
\* colour's capture list is of the opposite colour to its capturer
C39_CapturesAreEnemy ==
    /\ \A color \in Colors : \A i \in 1 .. Len(captured_pieces[color]) :
          captured_pieces[color][i].color = Opponent(color)
    /\ \A i \in 1 .. Len(move_history) :
          move_history[i].captured # None
              => move_history[i].captured.color = Opponent(move_history[i].piece.color)
    /\ ~game_over =>
          \A m \in LegalCalls(Self) :
              Cardinality(PiecesOf(BoardAfter(Self, m).board, current_turn))
                  = Cardinality(PiecesOf(board, current_turn))

----------------------------------------------------------------------------
(* The automated player mates when it can *)

\* the move, made with queen promotion, ends the game in favour of the
\* automated colour
Wins(simulated, ai_color_) ==
    simulated.ok /\ simulated.game.game_over /\ simulated.game.winner = ai_color_

Mates(g, m) == Wins(_simulate_move(Game_to_dict(g), m), g.ai_color)

\* the score choose_ai_move gives a root candidate
Score(g, m) ==
    minimax(_simulate_move(Game_to_dict(g), m).game, 1, FALSE, g.ai_color, -inf, inf)

MatePlayed(r, ai_color_) ==
    /\ r.result.success
    /\ r.game.game_over /\ r.game.winner = ai_color_
    /\ r.game.status_message = "Checkmate! " \o Capitalize(ai_color_) \o " wins!"

\* C40: if the automated colour is to move and one of its legal moves, made
\* with queen promotion, delivers checkmate, make_ai_move plays a mating
\* move: a mating candidate scores the fixed win magnitude, every candidate
\* that does not end the game in the automated side's favour scores less
C40_MateIsPlayed ==
    (/\ ai_enabled /\ ~game_over /\ current_turn = ai_color
     /\ \E m \in LegalCalls(Self) : Mates(Self, m)) =>
        /\ \A ai_move \in AIChoices(Self) :
              /\ ai_move # NoMove
              /\ Mates(Self, ai_move)
              /\ MatePlayed(make_ai_move(Self, ai_move, now), ai_color)
        /\ \A m \in LegalCalls(Self) :
              IF Mates(Self, m) THEN Score(Self, m) = WinScore
              ELSE Score(Self, m) < WinScore

\* the automated colour is to move with a mating move, a stalemating move
\* and a move that leaves the game open among its legal moves
C40_Witness ==
    /\ ai_enabled /\ ~game_over /\ current_turn = ai_color
    /\ \E m \in LegalCalls(Self) : Mates(Self, m)
    /\ \E m \in LegalCalls(Self) :
          _simulate_move(Game_to_dict(Self), m).game.status_message
              = "Stalemate! Game is a draw."
    /\ \E m \in LegalCalls(Self) : ~_simulate_move(Game_to_dict(Self), m).game.game_over
====
